---- MODULE Spec2Model ----
(***************************************************************************)
(* A model of byro-fints' FinTS dialog lifecycle:                          *)
(*   - the session registry of fints_interface.py (with_fints,             *)
(*     open_client, pause_client, resume_client, close_client,             *)
(*     _ensure_close_clients) with its three ContextVars, one copy per     *)
(*     execution context (a worker thread serving requests);               *)
(*   - the lifecycle helper (AbstractFinTSHelper / FinTSHelper of          *)
(*     fints_interface.py and its twin AbstractFinTSWrapper /              *)
(*     FinTSWrapperAddProcess of views/login_add.py): open, close,         *)
(*     reopen, save_in_session, restore_from_session, get_tan_mechanisms,  *)
(*     get_tan_media;                                                      *)
(*   - the enrolment workflow of views/login_add.py: do_step2, do_step3,   *)
(*     do_step4 and the form_valid handlers of the five step views, and    *)
(*     the refresh handler of views/login.py, each handler one step.       *)
(* The protocol library (fints.client.FinTS3PinTanClient) is a black box:  *)
(* each of its calls either succeeds or raises, chosen nondeterministically*)
(* within a budget of MaxFaults raised errors per behaviour.               *)
(***************************************************************************)
EXTENDS Integers, Sequences, FiniteSets, TLC

\* ---------------------------------------------------------------- bounds
NumCtx == 2
NumHelperCtx == 1
MaxClients == 2
NumLogins == 2
NumMechs == 2
NumMedia == 2
MaxDepth == 2
MaxResume == 1
MaxFaults == 1
MaxEnrolClients == 6
NumPins == 2
MaxFlickerBytes == 1
NumCssClasses == 2
MaxFlickerCalls == 3
MaxReleaseClients == 3

Ctx == 1..NumCtx
HelperCtx == 1..NumHelperCtx
ClientIds == 1..MaxClients
Logins == 1..NumLogins
BankMechs == 1..NumMechs
BankMedia == 1..NumMedia
ResumeIds == 1..MaxResume
EnrolClientIds == 1..MaxEnrolClients
Pins == 1..NumPins
CssClasses == 1..NumCssClasses
ReleaseClientIds == 1..MaxReleaseClients

\* PIN_CACHED_SENTINEL = "******": the form value that stands for the cached PIN. PINs
\* are numbers here and 0 is None, so the sentinel is a number that is no PIN.
PIN_CACHED_SENTINEL == 100

VARIABLES
    with_fints_active,  \* ContextVar with_fints_active, per context
    open_clients,       \* ContextVar open_clients, per context (None is read as set())
    resumed_dialogs,    \* ContextVar resumed_dialogs, per context: the keys of the dict
    clients,            \* every FinTS3PinTanClient object constructed so far
    nextClient,         \* the identity of the next client object
    helper,             \* the lifecycle helper object of the request a context serves
    session,            \* request.session: resume_id -> saved helper state
    nextResume,         \* the next uuid4 resume_id
    fints_client_data,  \* FinTSUserLogin.fints_client_data, per user login
    faults,             \* library errors raised so far
    last,               \* the call made by the last step and how it ended
    bank,               \* what the bank answers: offered mechanisms and media, demands
    securebox,          \* request.securebox: the PIN kept under a resume label, per tier
    route,              \* the page the last response sent the browser to
    selected_tan_medium, \* FinTSUserLogin.selected_tan_medium, per user login
    cleaned_data,       \* form.cleaned_data of the request served last
    pin_cache,          \* request.securebox under a login's PIN cache label, per tier
    tan_request,        \* the need-TAN response handed to get_tan_context_data
    tan_context,        \* the context get_tan_context_data returned last
    flicker_calls       \* the calls of get_flicker_css made so far, with what they returned

vars == <<with_fints_active, open_clients, resumed_dialogs, clients, nextClient,
          helper, session, nextResume, fints_client_data, faults, last,
          bank, securebox, route, selected_tan_medium, cleaned_data,
          pin_cache, tan_request, tan_context, flicker_calls>>

\* ------------------------------------------------------------ data shapes
\* client_data, as FinTS3PinTanClient.deconstruct() returns it; of = 0 is None.
NoSnap == [of |-> 0, login |-> 0, mech |-> 0, medium |-> 0, priv |-> FALSE]

NoClient == [st |-> "none", login |-> 0, mech |-> 0, medium |-> 0, ctx |-> 0,
             blob |-> 0, snapOf |-> 0, ev |-> <<>>]

NoHelper == [cls |-> "none", resume_id |-> 0, client |-> 0, dialog_data |-> 0,
             tan_mechanism |-> 0, tan_medium |-> 0, user_login_pk |-> 0,
             client_data |-> NoSnap,
             pin_state |-> "none", pin |-> 0, pin_state_shouldbe |-> "none",
             tan_request_serialized |-> 0,
             tan_mechanisms |-> {}, tan_media |-> {}, information |-> FALSE]

NoEntry == [cls |-> "none", dialog_data |-> 0, tan_mechanism |-> 0, tan_medium |-> 0,
            user_login_pk |-> 0, client_data |-> NoSnap,
            pin_state |-> "none", pin_state_shouldbe |-> "none",
            tan_request_serialized |-> 0,
            tan_mechanisms |-> {}, tan_media |-> {}, information |-> FALSE]

\* A bank offering every mechanism and medium, requiring no medium and no TAN at initialization.
PlainBank == [mechs |-> BankMechs, media |-> BankMedia, needs_medium |-> {}, init_tan |-> {}]

\* No page: nothing was answered yet.
NoRoute == [step |-> 0, resume_id |-> 0]

\* A form without the fields of the enrolment steps; 0 is a field that is absent.
NoForm == [store_pin |-> "none", pin |-> 0, tan_mechanism |-> 0, tan_medium |-> 0, tan |-> 0]

\* The initial values of the PIN fields of a form: no initial PIN, the form's own
\* initial of store_pin.
NoInitial == [pin |-> 0, store_pin |-> "0"]

NoCall == [op |-> "init", ctx |-> 0, k |-> 0, exc |-> "none", snap |-> NoSnap, blob |-> 0,
           pin |-> 0, initial |-> NoInitial]

\* Nothing kept under a label of the securebox, in either of its tiers.
NoPin == [transient |-> 0, permanent |-> 0]

\* securebox.fetch_value(label, storage, default=None): one tier, or whichever holds a
\* value; with a value in both, the tier that is looked at first is the library's choice.
FetchValue(box, storage, tier) ==
    IF storage = "transient_only" THEN box.transient
    ELSE IF storage = "permanent_only" THEN box.permanent
    ELSE IF tier = "transient" THEN (IF box.transient # 0 THEN box.transient ELSE box.permanent)
    ELSE (IF box.permanent # 0 THEN box.permanent ELSE box.transient)

\* securebox.store_value(label, value, storage=...)
StoreValue(box, value, storage) ==
    IF storage = "transient_only" THEN [box EXCEPT !.transient = value]
    ELSE [box EXCEPT !.permanent = value]

\* A need-TAN response; 0 is an attribute that is None.
NoTanRequest == [challenge_html |-> 0, challenge_hhduc |-> 0, challenge_matrix |-> 0]

\* The empty context: 0, and <<>> for the flicker code, is a key that is not there.
NoTanContext == [challenge |-> 0, challenge_flicker |-> <<>>,
                 challenge_flicker_css_class |-> 0, challenge_matrix_url |-> 0]

First(S) == CHOOSE x \in S : \A y \in S : x <= y

Count(seq, e) == Cardinality({i \in 1..Len(seq) : seq[i] = e})

\* The number of times an exit (the client's or its resume scope's) was invoked.
Exits(cl) == Count(cl.ev, "exit") + Count(cl.ev, "scope_exit")

\* The whole state as one value, so that a handler can thread it through the calls it makes.
World == [wfa |-> with_fints_active, oc |-> open_clients, rd |-> resumed_dialogs,
          cl |-> clients, next |-> nextClient, h |-> helper, sess |-> session,
          rid |-> nextResume, db |-> fints_client_data, faults |-> faults,
          exc |-> "none", k |-> 0, snap |-> NoSnap, blob |-> 0,
          bank |-> bank, sb |-> securebox, route |-> route, stm |-> selected_tan_medium,
          form |-> cleaned_data, ret |-> TRUE, next_step |-> 0,
          pc |-> pin_cache, pin |-> 0, tier |-> "transient", initial |-> NoInitial]

Raise(w, e) == [w EXCEPT !.exc = e]
Fault(w) == [w EXCEPT !.exc = "FinTSError", !.faults = @ + 1]
Log(w, k, e) == [w EXCEPT !.cl[k].ev = Append(@, e)]

\* ------------------------------------------------- the protocol library
\* FinTS3PinTanClient(...): from_data seeds the selected mechanism and medium.
LibConstruct(c, login, snap) ==
    [st |-> "new", login |-> login, mech |-> snap.mech, medium |-> snap.medium,
     ctx |-> c, blob |-> 0, snapOf |-> snap.of, ev |-> <<>>]

\* client.__enter__(): establishes the dialog; with no mechanism selected the
\* library selects the first one the bank offers.
LibEnter(w, k, f) ==
    IF f = "enter" THEN Fault(w)
    ELSE Log([w EXCEPT !.cl[k].st = "open",
                       !.cl[k].mech = IF @ = 0 THEN First(BankMechs) ELSE @], k, "enter")

\* client.resume_dialog(dialog_data).__enter__()
LibResumeEnter(w, k, blob, f) ==
    IF f = "enter" THEN Fault(w)
    ELSE Log([w EXCEPT !.cl[k].st = "open", !.cl[k].blob = blob], k, "resume_enter")

\* client.pause_dialog(): a dialog that is not standing and open cannot be paused.
LibPauseDialog(w, k, f) ==
    IF w.cl[k].st # "open" THEN Raise(w, "FinTSError")
    ELSE IF f = "pause_dialog" THEN Fault(w)
    ELSE [Log([w EXCEPT !.cl[k].st = "paused"], k, "pause_dialog") EXCEPT !.blob = k]

\* client.deconstruct(including_private=...)
LibDeconstruct(w, k, including_private, f) ==
    IF f = "deconstruct" THEN Fault(w)
    ELSE [Log(w, k, IF including_private THEN "deconstruct_private" ELSE "deconstruct_public")
            EXCEPT !.snap = [of |-> k, login |-> w.cl[k].login, mech |-> w.cl[k].mech,
                             medium |-> w.cl[k].medium, priv |-> including_private]]

\* client.__exit__ / rd[client].__exit__: a paused dialog is left paused at the bank.
LibExit(w, k, kind, f) ==
    LET w1 == Log([w EXCEPT !.cl[k].st = IF @ = "paused" THEN "paused" ELSE "closed"], k, kind)
    IN IF f = "exit" THEN Fault(w1) ELSE w1

\* --------------------------------------------------------- the registry
\* _inner_open_client without its scope assertion.
InnerOpenClientNoAssert(w, c, login, snap, tan_mechanism, tan_medium_name) ==
    LET k == w.next
        c0 == LibConstruct(c, login, snap)
        c1 == [c0 EXCEPT !.mech = IF tan_mechanism # 0 THEN tan_mechanism ELSE @,
                         !.medium = IF tan_medium_name # 0 THEN tan_medium_name ELSE @]
    IN [w EXCEPT !.cl[k] = c1, !.next = k + 1, !.k = k]

\* _inner_open_client: the scope assertion, the constructor, set_tan_mechanism, set_tan_medium
InnerOpenClient(w, c, login, snap, tan_mechanism, tan_medium_name) ==
    IF w.wfa[c] = 0 THEN Raise(w, "AssertionError")
    ELSE LET k == w.next
             c0 == LibConstruct(c, login, snap)
             c1 == [c0 EXCEPT !.mech = IF tan_mechanism # 0 THEN tan_mechanism ELSE @,
                              !.medium = IF tan_medium_name # 0 THEN tan_medium_name ELSE @]
         IN [w EXCEPT !.cl[k] = c1, !.next = k + 1, !.k = k]

\* An open_client that would add the client to open_clients before __enter__().
OpenClientRegisteringFirst(w, c, login, snap, tan_mechanism, tan_medium_name, f) ==
    LET w1 == InnerOpenClient(w, c, login, snap, tan_mechanism, tan_medium_name) IN
    IF w1.exc # "none" THEN w1 ELSE
    LibEnter([w1 EXCEPT !.oc[c] = @ \cup {w1.k}], w1.k, f)

\* open_client
OpenClient(w, c, login, snap, tan_mechanism, tan_medium_name, f) ==
    LET w1 == InnerOpenClient(w, c, login, snap, tan_mechanism, tan_medium_name) IN
    IF w1.exc # "none" THEN w1 ELSE
    LET w2 == LibEnter(w1, w1.k, f) IN
    IF w2.exc # "none" THEN w2 ELSE
    [w2 EXCEPT !.oc[c] = @ \cup {w1.k}]

\* resume_client: rd is the ContextVar's own dict when that is not empty (get() or dict()),
\* so the entry made before __enter__ stays in it when __enter__ raises.
ResumeClient(w, c, login, client_data, dialog_data, tan_mechanism, tan_medium_name, f) ==
    LET w1 == InnerOpenClient(w, c, login, client_data, tan_mechanism, tan_medium_name) IN
    IF w1.exc # "none" THEN w1 ELSE
    LET k == w1.k
        w2 == IF w1.rd[c] # {} THEN [w1 EXCEPT !.rd[c] = @ \cup {k}] ELSE w1
        w3 == LibResumeEnter(w2, k, dialog_data, f) IN
    IF w3.exc # "none" THEN w3 ELSE
    [w3 EXCEPT !.oc[c] = @ \cup {k}, !.rd[c] = @ \cup {k}]

\* close_client without its assertion: set.remove raises KeyError after the snapshot.
CloseClientNoAssert(w, c, k, including_private, f) ==
    LET w1 == LibDeconstruct(w, k, including_private, f) IN
    IF w1.exc # "none" THEN w1 ELSE
    IF k \notin w1.oc[c] THEN Raise(w1, "KeyError") ELSE
    LET w2 == [w1 EXCEPT !.oc[c] = @ \ {k}] IN
    IF k \in w2.rd[c]
    THEN LET w3 == LibExit(w2, k, "scope_exit", f) IN
         IF w3.exc # "none" THEN w3 ELSE [w3 EXCEPT !.rd[c] = @ \ {k}]
    ELSE LibExit(w2, k, "exit", f)

CloseClient(w, c, k, including_private, f) ==
    IF k \notin w.oc[c] THEN Raise(w, "AssertionError") ELSE
    LET w1 == LibDeconstruct(w, k, including_private, f) IN
    IF w1.exc # "none" THEN w1 ELSE
    LET w2 == [w1 EXCEPT !.oc[c] = @ \ {k}] IN
    IF k \in w2.rd[c]
    THEN LET w3 == LibExit(w2, k, "scope_exit", f) IN
         IF w3.exc # "none" THEN w3 ELSE [w3 EXCEPT !.rd[c] = @ \ {k}]
    ELSE LibExit(w2, k, "exit", f)

\* pause_client closing with the default including_private=False.
PauseClientPublic(w, c, k, f) ==
    IF k \notin w.oc[c] THEN Raise(w, "AssertionError") ELSE
    LET w1 == LibPauseDialog(w, k, f) IN
    IF w1.exc # "none" THEN w1 ELSE
    CloseClient(w1, c, k, FALSE, f)

PauseClient(w, c, k, f) ==
    IF k \notin w.oc[c] THEN Raise(w, "AssertionError") ELSE
    LET w1 == LibPauseDialog(w, k, f) IN
    IF w1.exc # "none" THEN w1 ELSE
    CloseClient(w1, c, k, TRUE, f)

\* The loop of _ensure_close_clients over the set, in the order `order`; the exit
\* of client failAt raises and ends the loop.
RECURSIVE ForceCloseLoop(_, _, _, _)
ForceCloseLoop(w, c, order, failAt) ==
    IF order = <<>> THEN w ELSE
    LET k == Head(order)
        w1 == LibExit(w, k, IF k \in w.rd[c] THEN "scope_exit" ELSE "exit",
                      IF k = failAt THEN "exit" ELSE "none") IN
    IF w1.exc # "none" THEN w1 ELSE ForceCloseLoop(w1, c, Tail(order), failAt)

EnsureCloseClients(w, c, order, failAt) ==
    LET w1 == ForceCloseLoop(w, c, order, failAt) IN
    IF w1.exc # "none" THEN w1 ELSE [w1 EXCEPT !.oc[c] = {}, !.rd[c] = {}]

\* A with_fints whose counter would be lowered after the cleanup instead of in a finally.
LeaveScopeUnguarded(w, c, order, failAt) ==
    IF EnsureCloseClients(w, c, order, failAt).exc # "none"
    THEN EnsureCloseClients(w, c, order, failAt)
    ELSE [EnsureCloseClients(w, c, order, failAt) EXCEPT !.wfa[c] = @ - 1]

\* with_fints, after the wrapped function: the cleanup, then the counter in the inner finally.
LeaveScope(w, c, order, failAt) ==
    [EnsureCloseClients(w, c, order, failAt) EXCEPT !.wfa[c] = @ - 1]

\* ------------------------------------------------- the lifecycle helper
HelperClasses == {"FinTSHelper", "FinTSWrapperAddProcess"}

\* from_data: the user login's row for FinTSHelper, the object's own field for the wrapper.
FromData(w, c) ==
    IF w.h[c].cls = "FinTSHelper" THEN w.db[w.h[c].user_login_pk] ELSE w.h[c].client_data

\* _do_save_client_data
DoSaveClientData(w, c, client_data) ==
    IF w.h[c].cls = "FinTSHelper"
    THEN [w EXCEPT !.db[w.h[c].user_login_pk] = client_data]
    ELSE [w EXCEPT !.h[c].client_data = client_data]

\* AbstractFinTSHelper.open / AbstractFinTSWrapper.open
\* An open() that would keep the continuation blob after the resume.
HelperOpenKeepingBlob(w, c, f) ==
    LET h == w.h[c] IN
    IF h.client # 0 THEN w ELSE
    IF h.dialog_data # 0
    THEN LET w1 == ResumeClient(w, c, h.user_login_pk, FromData(w, c), h.dialog_data,
                                h.tan_mechanism, h.tan_medium, f) IN
         IF w1.exc # "none" THEN w1
         ELSE [w1 EXCEPT !.h[c].client = w1.k]
    ELSE LET w1 == OpenClient(w, c, h.user_login_pk, FromData(w, c),
                              h.tan_mechanism, h.tan_medium, f) IN
         IF w1.exc # "none" THEN w1
         ELSE [w1 EXCEPT !.h[c].client = w1.k]

HelperOpen(w, c, f) ==
    LET h == w.h[c] IN
    IF h.client # 0 THEN w ELSE
    IF h.dialog_data # 0
    THEN LET w1 == ResumeClient(w, c, h.user_login_pk, FromData(w, c), h.dialog_data,
                                h.tan_mechanism, h.tan_medium, f) IN
         IF w1.exc # "none" THEN w1
         ELSE [w1 EXCEPT !.h[c].client = w1.k, !.h[c].dialog_data = 0]
    ELSE LET w1 == OpenClient(w, c, h.user_login_pk, FromData(w, c),
                              h.tan_mechanism, h.tan_medium, f) IN
         IF w1.exc # "none" THEN w1
         ELSE [w1 EXCEPT !.h[c].client = w1.k]

\* close() leaving including_private at close_client's default.
HelperClosePublic(w, c, f) ==
    IF w.h[c].client = 0 THEN w ELSE
    LET w1 == CloseClient(w, c, w.h[c].client, FALSE, f) IN
    IF w1.exc # "none" THEN w1
    ELSE [DoSaveClientData(w1, c, w1.snap) EXCEPT !.h[c].client = 0]

\* AbstractFinTSHelper.close / AbstractFinTSWrapper.close
HelperClose(w, c, f) ==
    IF w.h[c].client = 0 THEN w ELSE
    LET w1 == CloseClient(w, c, w.h[c].client, TRUE, f) IN
    IF w1.exc # "none" THEN w1
    ELSE [DoSaveClientData(w1, c, w1.snap) EXCEPT !.h[c].client = 0]

\* AbstractFinTSHelper.reopen(**kwargs), called with tan_mechanism= or tan_medium=
HelperReopen(w, c, key, value, f) ==
    LET w1 == HelperClose(w, c, f) IN
    IF w1.exc # "none" THEN w1 ELSE
    LET w2 == IF key = "tan_mechanism" THEN [w1 EXCEPT !.h[c].tan_mechanism = value]
              ELSE [w1 EXCEPT !.h[c].tan_medium = value]
    IN HelperOpen(w2, c, f)

\* A session tuple that would leave out the TAN medium.
DataForSessionWithoutMedium(h) ==
    [cls |-> h.cls, dialog_data |-> h.dialog_data, tan_mechanism |-> h.tan_mechanism,
     tan_medium |-> 0, user_login_pk |-> h.user_login_pk,
     client_data |-> IF h.cls = "FinTSHelper" THEN NoSnap ELSE h.client_data,
     pin_state |-> h.pin_state, pin_state_shouldbe |-> h.pin_state_shouldbe,
     tan_request_serialized |-> h.tan_request_serialized,
     tan_mechanisms |-> h.tan_mechanisms, tan_media |-> h.tan_media,
     information |-> h.information]

\* _get_data_for_session, with the class name in front
DataForSession(h) ==
    [cls |-> h.cls, dialog_data |-> h.dialog_data, tan_mechanism |-> h.tan_mechanism,
     tan_medium |-> h.tan_medium, user_login_pk |-> h.user_login_pk,
     client_data |-> IF h.cls = "FinTSHelper" THEN NoSnap ELSE h.client_data,
     pin_state |-> h.pin_state, pin_state_shouldbe |-> h.pin_state_shouldbe,
     tan_request_serialized |-> h.tan_request_serialized,
     tan_mechanisms |-> h.tan_mechanisms, tan_media |-> h.tan_media,
     information |-> h.information]

\* AbstractFinTSHelper.save_in_session / AbstractFinTSWrapper.save_in_session
HelperSaveInSession(w, c, f) ==
    LET w1 == IF w.h[c].client = 0 THEN w
              ELSE LET p == PauseClient(w, c, w.h[c].client, f) IN
                   IF p.exc # "none" THEN p
                   ELSE [DoSaveClientData(p, c, p.snap)
                            EXCEPT !.h[c].dialog_data = p.blob, !.h[c].client = 0]
    IN IF w1.exc # "none" THEN w1
       ELSE [w1 EXCEPT !.sess[w1.h[c].resume_id] = DataForSession(w1.h[c])]

\* get_tan_mechanisms: the first offered mechanism becomes the helper's when it has none.
HelperGetTanMechanisms(w, c) ==
    IF w.h[c].client = 0 THEN Raise(w, "AttributeError")
    ELSE [w EXCEPT !.h[c].tan_mechanism = IF @ = 0 THEN First(BankMechs) ELSE @]

\* get_tan_media: the first medium becomes the helper's when it has none.
HelperGetTanMedia(w, c) ==
    IF w.h[c].client = 0 THEN Raise(w, "AttributeError")
    ELSE [w EXCEPT !.h[c].tan_medium = IF @ = 0 THEN First(BankMedia) ELSE @]

\* __init__ (a fresh uuid4 resume_id) and load_from_user_login / load_from_form
HelperInit(w, c, cls, pk, stored_tan_medium) ==
    [w EXCEPT !.h[c] = [NoHelper EXCEPT !.cls = cls, !.resume_id = w.rid,
                                        !.user_login_pk = pk,
                                        !.tan_medium = IF cls = "FinTSHelper"
                                                       THEN stored_tan_medium ELSE 0],
              !.rid = @ + 1]

\* A restore_from_session that would not compare the class name of the entry.
HelperRestoreUnchecked(w, c, cls, resume_id) ==
    LET data == w.sess[resume_id] IN
    [w EXCEPT !.h[c] = [cls |-> cls, resume_id |-> resume_id, client |-> 0,
                        dialog_data |-> data.dialog_data,
                        tan_mechanism |-> data.tan_mechanism,
                        tan_medium |-> data.tan_medium,
                        user_login_pk |-> data.user_login_pk,
                        client_data |-> data.client_data,
                        pin_state |-> data.pin_state,
                        pin |-> IF data.pin_state = "save_on_resume"
                                THEN FetchValue(w.sb[resume_id], "any", w.tier)
                                ELSE 0,
                        pin_state_shouldbe |-> data.pin_state_shouldbe,
                        tan_request_serialized |-> data.tan_request_serialized,
                        tan_mechanisms |-> data.tan_mechanisms,
                        tan_media |-> data.tan_media,
                        information |-> data.information]]

\* restore_from_session, on the class cls
HelperRestoreFromSession(w, c, cls, resume_id) ==
    LET data == w.sess[resume_id] IN
    IF data.cls # cls THEN Raise([w EXCEPT !.h[c] = NoHelper], "AssertionError")
    ELSE [w EXCEPT !.h[c] = [cls |-> cls, resume_id |-> resume_id, client |-> 0,
                             dialog_data |-> data.dialog_data,
                             tan_mechanism |-> data.tan_mechanism,
                             tan_medium |-> data.tan_medium,
                             user_login_pk |-> data.user_login_pk,
                             client_data |-> data.client_data,
                             pin_state |-> data.pin_state,
                             pin |-> IF data.pin_state = "save_on_resume"
                                     THEN FetchValue(w.sb[resume_id], "any", w.tier)
                                     ELSE 0,
                             pin_state_shouldbe |-> data.pin_state_shouldbe,
                             tan_request_serialized |-> data.tan_request_serialized,
                             tan_mechanisms |-> data.tan_mechanisms,
                             tan_media |-> data.tan_media,
                             information |-> data.information]]

\* --------------------------------------------------------------- steps
Commit(w, op, c, k) ==
    /\ with_fints_active' = w.wfa
    /\ open_clients' = w.oc
    /\ resumed_dialogs' = w.rd
    /\ clients' = w.cl
    /\ nextClient' = w.next
    /\ helper' = w.h
    /\ session' = w.sess
    /\ nextResume' = w.rid
    /\ fints_client_data' = w.db
    /\ faults' = w.faults
    /\ last' = [op |-> op, ctx |-> c, k |-> k, exc |-> w.exc, snap |-> w.snap, blob |-> w.blob,
                pin |-> w.pin, initial |-> w.initial]
    /\ bank' = w.bank
    /\ securebox' = w.sb
    /\ route' = w.route
    /\ selected_tan_medium' = w.stm
    /\ cleaned_data' = w.form
    /\ pin_cache' = w.pc
    /\ UNCHANGED <<tan_request, tan_context, flicker_calls>>

\* The library calls that may be chosen to raise in one step.
FaultChoices(S) == IF faults < MaxFaults THEN S \cup {"none"} ELSE {"none"}

Perms(S) == {s \in [1..Cardinality(S) -> S] : \A i, j \in 1..Cardinality(S) : i # j => s[i] # s[j]}

Init ==
    /\ with_fints_active = [c \in Ctx |-> 0]
    /\ open_clients = [c \in Ctx |-> {}]
    /\ resumed_dialogs = [c \in Ctx |-> {}]
    /\ clients = [k \in ClientIds |-> NoClient]
    /\ nextClient = 1
    /\ helper = [c \in Ctx |-> NoHelper]
    /\ session = [r \in ResumeIds |-> NoEntry]
    /\ nextResume = 1
    /\ fints_client_data = [l \in Logins |-> NoSnap]
    /\ faults = 0
    /\ last = NoCall
    /\ bank = PlainBank
    /\ securebox = [r \in ResumeIds |-> NoPin]
    /\ route = NoRoute
    /\ selected_tan_medium = [l \in Logins |-> 0]
    /\ cleaned_data = NoForm
    /\ pin_cache = [l \in Logins |-> NoPin]
    /\ tan_request = NoTanRequest
    /\ tan_context = NoTanContext
    /\ flicker_calls = <<>>

\* A with_fints-wrapped function is entered.
EnterScope(c) ==
    /\ with_fints_active[c] < MaxDepth
    /\ Commit([World EXCEPT !.wfa[c] = @ + 1], "enter_scope", c, 0)

\* A with_fints-wrapped function is left.
ExitScope(c) ==
    /\ with_fints_active[c] > 0
    /\ \E order \in Perms(open_clients[c]) :
       \E failAt \in (IF faults < MaxFaults THEN open_clients[c] ELSE {}) \cup {0} :
          Commit(LeaveScope(World, c, order, failAt), "exit_scope", c, 0)

\* open_client called by the code of a request.
CallOpenClientAmong(c, ids) ==
    /\ nextClient \in ids
    /\ \E login \in Logins, f \in FaultChoices({"enter"}) :
          LET w == OpenClient(World, c, login, NoSnap, 0, 0, f)
          IN Commit(w, "open_client", c, w.k)

\* resume_client called with the two values a pause_client returned for client p.
CallResumeClientAmong(c, ids) ==
    /\ nextClient \in ids
    /\ \E p \in ids, f \in FaultChoices({"enter"}) :
          /\ Count(clients[p].ev, "pause_dialog") > 0
          /\ Count(clients[p].ev, "deconstruct_private") > 0
          /\ LET cd == [of |-> p, login |-> clients[p].login, mech |-> clients[p].mech,
                        medium |-> clients[p].medium, priv |-> TRUE]
                 w == ResumeClient(World, c, clients[p].login, cd, p, 0, 0, f)
             IN Commit(w, "resume_client", c, w.k)

\* close_client called on any client object the code holds.
CallCloseClientAmong(c, ids) ==
    \E k \in ids, including_private \in BOOLEAN, f \in FaultChoices({"deconstruct", "exit"}) :
       /\ clients[k].st # "none"
       /\ Commit(CloseClient(World, c, k, including_private, f), "close_client", c, k)

\* pause_client called on any client object the code holds.
CallPauseClientAmong(c, ids) ==
    \E k \in ids, f \in FaultChoices({"pause_dialog", "deconstruct", "exit"}) :
       /\ clients[k].st # "none"
       /\ Commit(PauseClient(World, c, k, f), "pause_client", c, k)

CallOpenClient(c) == CallOpenClientAmong(c, ClientIds)

CallResumeClient(c) == CallResumeClientAmong(c, ClientIds)

CallCloseClient(c) == CallCloseClientAmong(c, ClientIds)

CallPauseClient(c) == CallPauseClientAmong(c, ClientIds)

Next ==
    \E c \in Ctx :
       \/ EnterScope(c)
       \/ ExitScope(c)
       \/ CallOpenClient(c)
       \/ CallResumeClient(c)
       \/ CallCloseClient(c)
       \/ CallPauseClient(c)

Spec == Init /\ [][Next]_vars

\* A view's setup(): a new helper for the request this context now serves.
SetupNew(c) ==
    /\ with_fints_active[c] = 0
    /\ nextResume <= MaxResume
    /\ \E cls \in HelperClasses, pk \in Logins, m \in {0} \cup BankMedia :
          Commit(HelperInit(World, c, cls, pk, m), "setup", c, 0)

\* A view's setup() with a resume_id in the URL.
SetupRestore(c) ==
    /\ with_fints_active[c] = 0
    /\ \E cls \in HelperClasses, r \in ResumeIds :
          /\ session[r].cls # "none"
          /\ Commit(HelperRestoreFromSession(World, c, cls, r), "restore_from_session", c, 0)

CallHelperOpenAmong(c, ids) ==
    /\ helper[c].cls # "none"
    /\ nextClient \in ids
    /\ \E f \in FaultChoices({"enter"}) :
          LET w == HelperOpen(World, c, f)
          IN Commit(w, "helper_open", c, w.h[c].client)

CallHelperOpen(c) == CallHelperOpenAmong(c, ClientIds)

CallHelperClose(c) ==
    /\ helper[c].cls # "none"
    /\ \E f \in FaultChoices({"deconstruct", "exit"}) :
          Commit(HelperClose(World, c, f), "helper_close", c, helper[c].client)

\* reopen as do_step2 and do_step3 call it: after open(), with an option that
\* differs from the one the helper holds.
CallHelperReopen(c) ==
    /\ helper[c].cls # "none"
    /\ helper[c].client # 0
    /\ nextClient <= MaxClients
    /\ \E key \in {"tan_mechanism", "tan_medium"},
          f \in FaultChoices({"deconstruct", "exit", "enter"}) :
       \E value \in (IF key = "tan_mechanism" THEN BankMechs \ {helper[c].tan_mechanism}
                                               ELSE BankMedia \ {helper[c].tan_medium}) :
          Commit(HelperReopen(World, c, key, value, f), "helper_reopen", c, helper[c].client)

CallHelperSaveInSession(c) ==
    /\ helper[c].cls # "none"
    /\ \E f \in FaultChoices({"pause_dialog", "deconstruct", "exit"}) :
          Commit(HelperSaveInSession(World, c, f), "save_in_session", c, helper[c].client)

CallHelperGetTanMechanisms(c) ==
    /\ helper[c].cls # "none"
    /\ Commit(HelperGetTanMechanisms(World, c), "get_tan_mechanisms", c, helper[c].client)

CallHelperGetTanMedia(c) ==
    /\ helper[c].cls # "none"
    /\ Commit(HelperGetTanMedia(World, c), "get_tan_media", c, helper[c].client)

NextHelper ==
    \E c \in HelperCtx :
       \/ EnterScope(c)
       \/ ExitScope(c)
       \/ SetupNew(c)
       \/ SetupRestore(c)
       \/ CallHelperOpen(c)
       \/ CallHelperClose(c)
       \/ CallHelperReopen(c)
       \/ CallHelperSaveInSession(c)
       \/ CallHelperGetTanMechanisms(c)
       \/ CallHelperGetTanMedia(c)

\* The helper-driven lifecycle: requests that use the registry only through a helper.
SpecHelper == Init /\ [][NextHelper]_vars


\* ------------------------------------------------ the enrolment workflow
\* client.is_tan_media_required(): a property of the mechanism the client uses.
LibIsTanMediaRequired(w, k) == w.cl[k].mech \in w.bank.needs_medium

\* client.init_tan_response: set by __enter__ when the initialization demanded a TAN.
LibInitTanResponse(w, k) == w.cl[k].mech \in w.bank.init_tan

\* send_tan, get_sepa_accounts, get_information, get_tan_media of _fetch_update_accounts:
\* a call on a dialog that is not open, or one the bank rejects, raises. A statement
\* after a raised exception is not executed: the world passes through unchanged.
LibOperation(w, k, name, fails) ==
    IF w.exc # "none" THEN w
    ELSE IF k = 0 THEN Raise(w, "AttributeError")
    ELSE IF w.cl[k].st # "open" \/ fails THEN Raise(w, "FinTSError")
    ELSE Log(w, k, name)

\* The exception that leaves a try block once its finally block has run.
Finally(w, w2) == IF w2.exc # "none" THEN w2 ELSE [w2 EXCEPT !.exc = w.exc]

\* The values of the enum PinState; PinState(value) raises ValueError for any other.
PinStates == {"none", "dontsave", "save_on_resume", "save_temporary", "save_persistent"}

\* AbstractFinTSWrapper.load_from_form of FinTSWrapperAddProcess (SAVE_PIN_IN_RESUME);
\* a form without the store_pin field has "none" here and counts as DONTSAVE.
WrapperLoadFromForm(w, c) ==
    IF w.form.pin = 0 THEN w
    ELSE IF w.form.store_pin \notin PinStates THEN Raise(w, "ValueError")
    ELSE IF w.form.store_pin \in {"none", "dontsave"}
         THEN [w EXCEPT !.h[c].pin = w.form.pin, !.h[c].pin_state = "save_on_resume",
                        !.h[c].pin_state_shouldbe = w.form.store_pin]
         ELSE [w EXCEPT !.h[c].pin_state = w.form.store_pin,
                        !.h[c].pin_state_shouldbe = w.form.store_pin]

\* AbstractFinTSWrapper.pin, as open() reads it: the securebox holds nothing under the
\* resume label when it is 0, and request.securebox[...] raises KeyError.
WrapperPin(w, c) ==
    IF w.h[c].pin_state \in {"none", "dontsave", "save_on_resume"}
    THEN [w EXCEPT !.pin = w.h[c].pin]
    ELSE IF FetchValue(w.sb[w.h[c].resume_id], "any", w.tier) = 0 THEN Raise(w, "KeyError")
    ELSE [w EXCEPT !.pin = FetchValue(w.sb[w.h[c].resume_id], "any", w.tier)]

\* The open of the helper once the PIN was read.
OpenWithPin(w1, c, f) == IF w1.exc # "none" THEN w1 ELSE HelperOpen(w1, c, f)

\* The end of AbstractFinTSWrapper.open: a fresh open keeps the TAN request of the
\* initialization.
KeepInitTanRequest(w1, c, resumed) ==
    IF w1.exc # "none" \/ resumed THEN w1
    ELSE IF LibInitTanResponse(w1, w1.k)
         THEN [w1 EXCEPT !.h[c].tan_request_serialized = w1.k]
         ELSE w1

\* AbstractFinTSWrapper.open
WrapperOpen(w, c, f) ==
    IF w.exc # "none" \/ w.h[c].client # 0 THEN w
    ELSE KeepInitTanRequest(OpenWithPin(WrapperPin(w, c), c, f), c, w.h[c].dialog_data # 0)

\* setattr(self, key, value) in reopen
SetAttr(w, c, key, value) ==
    IF w.exc # "none" THEN w
    ELSE IF key = "tan_mechanism" THEN [w EXCEPT !.h[c].tan_mechanism = value]
    ELSE [w EXCEPT !.h[c].tan_medium = value]

\* A reopen that would change the attribute of the open dialog in place.
WrapperReopenInPlace(w, c, key, value, f) ==
    IF w.exc # "none" \/ key # "tan_mechanism" THEN SetAttr(w, c, key, value)
    ELSE [SetAttr(w, c, key, value) EXCEPT !.cl[w.h[c].client].mech = value]

\* AbstractFinTSWrapper.reopen
WrapperReopen(w, c, key, value, f) ==
    WrapperOpen(SetAttr(HelperClose(w, c, f), c, key, value), c, f)

\* save_in_session keeping the PIN in the permanent tier instead.
StorePinPermanently(w1, c) ==
    IF w1.exc = "none" /\ w1.h[c].pin_state = "save_on_resume"
    THEN [w1 EXCEPT !.sb[w1.h[c].resume_id] = StoreValue(@, w1.h[c].pin, "permanent_only")]
    ELSE w1

\* The end of AbstractFinTSWrapper.save_in_session: the PIN goes under the resume label.
StorePin(w1, c) ==
    IF w1.exc = "none" /\ w1.h[c].pin_state = "save_on_resume"
    THEN [w1 EXCEPT !.sb[w1.h[c].resume_id] = StoreValue(@, w1.h[c].pin, "transient_only")]
    ELSE w1

\* AbstractFinTSWrapper.save_in_session
WrapperSaveInSession(w, c, f) ==
    IF w.exc # "none" THEN w ELSE StorePin(HelperSaveInSession(w, c, f), c)

\* A delete_from_session that would leave the PIN under the resume label.
WrapperDeleteEntryOnly(w, c) ==
    IF w.exc # "none" THEN w
    ELSE [w EXCEPT !.sess[w.h[c].resume_id] = NoEntry]

\* AbstractFinTSWrapper.delete_from_session
WrapperDeleteFromSession(w, c) ==
    IF w.exc # "none" THEN w
    ELSE [w EXCEPT !.sess[w.h[c].resume_id] = NoEntry, !.sb[w.h[c].resume_id] = NoPin]

\* AbstractFinTSWrapper.get_tan_mechanisms
WrapperGetTanMechanisms(w, c) ==
    IF w.exc # "none" THEN w
    ELSE IF w.h[c].client = 0 THEN Raise(w, "AttributeError")
    ELSE [w EXCEPT !.h[c].tan_mechanisms = w.bank.mechs,
                   !.h[c].tan_mechanism = IF @ = 0 /\ w.bank.mechs # {}
                                          THEN First(w.bank.mechs) ELSE @]

\* AbstractFinTSWrapper.get_tan_media
WrapperGetTanMedia(w, c) ==
    IF w.exc # "none" THEN w
    ELSE IF w.h[c].client = 0 THEN Raise(w, "AttributeError")
    ELSE [w EXCEPT !.h[c].tan_media = w.bank.media,
                   !.h[c].tan_medium = IF @ = 0 /\ w.bank.media # {}
                                       THEN First(w.bank.media) ELSE @]

\* return True / return False of do_step2 .. do_step4
Return(w, value) == [w EXCEPT !.ret = value]

\* A do_step2 that would keep the mechanism held instead of asking.
DoStep2NeverAsks(w, c, tan_mechanism, f) ==
    LET m == IF tan_mechanism # 0 THEN tan_mechanism ELSE w.h[c].tan_mechanism IN
    IF m # w.h[c].tan_mechanism
    THEN Return(WrapperReopen(w, c, "tan_mechanism", m, f), TRUE)
    ELSE Return(w, TRUE)

\* FinTSWrapperAddProcess.do_step2
DoStep2(w, c, tan_mechanism, f) ==
    IF Cardinality(w.h[c].tan_mechanisms) > 1 /\ tan_mechanism = 0 THEN Return(w, FALSE) ELSE
    LET m == IF tan_mechanism # 0 THEN tan_mechanism ELSE w.h[c].tan_mechanism IN
    IF m # w.h[c].tan_mechanism
    THEN Return(WrapperReopen(w, c, "tan_mechanism", m, f), TRUE)
    ELSE Return(w, TRUE)

\* do_step3 from the line after get_tan_media()
DoStep3Media(w1, c, tan_medium, f) ==
    IF w1.exc # "none" THEN w1 ELSE
    IF Cardinality(w1.h[c].tan_media) > 1 /\ tan_medium = 0 THEN Return(w1, FALSE) ELSE
    LET m == IF tan_medium # 0 THEN tan_medium ELSE w1.h[c].tan_medium IN
    IF m # w1.h[c].tan_medium
    THEN Return(WrapperReopen(w1, c, "tan_medium", m, f), TRUE)
    ELSE Return(w1, TRUE)

\* FinTSWrapperAddProcess.do_step3
DoStep3(w, c, tan_medium, f) ==
    IF w.h[c].client = 0 THEN Raise(w, "AttributeError")
    ELSE IF LibIsTanMediaRequired(w, w.h[c].client) /\ w.cl[w.h[c].client].medium = 0
    THEN DoStep3Media(WrapperGetTanMedia(w, c), c, tan_medium, f)
    ELSE Return(w, TRUE)

\* self.accounts and self.information are set when both calls have returned.
KeepInformation(w, c) ==
    IF w.exc # "none" THEN w ELSE Return([w EXCEPT !.h[c].information = TRUE], TRUE)

\* A do_step4 that would ask for a TAN whether or not one was requested.
DoStep4AlwaysAsks(w, c, tan, fails) ==
    IF tan = 0 THEN Return(w, FALSE)
    ELSE KeepInformation(
            LibOperation(
               LibOperation(
                  IF w.h[c].tan_request_serialized # 0
                  THEN LibOperation(w, w.h[c].client, "send_tan", fails) ELSE w,
                  w.h[c].client, "get_sepa_accounts", fails),
               w.h[c].client, "get_information", fails), c)

\* FinTSWrapperAddProcess.do_step4
DoStep4(w, c, tan, fails) ==
    IF w.h[c].tan_request_serialized # 0 /\ tan = 0 THEN Return(w, FALSE)
    ELSE KeepInformation(
            LibOperation(
               LibOperation(
                  IF w.h[c].tan_request_serialized # 0
                  THEN LibOperation(w, w.h[c].client, "send_tan", fails) ELSE w,
                  w.h[c].client, "get_sepa_accounts", fails),
               w.h[c].client, "get_information", fails), c)

\* A handler that would keep its own step as next_step whatever do_step returned.
StayAtStep(w, n) == w

\* if self.wrapper.do_stepN(...): next_step = N + 1
Advance(w, n) == IF w.exc = "none" /\ w.ret THEN [w EXCEPT !.next_step = n] ELSE w

\* if next_step == 2 (as every handler has it after its own step): do_step2
TryStep2(w, c, f) ==
    IF w.exc # "none" \/ w.next_step # 2 THEN w
    ELSE Advance(DoStep2(w, c, w.form.tan_mechanism, f), 3)

TryStep3(w, c, f) ==
    IF w.exc # "none" \/ w.next_step # 3 THEN w
    ELSE Advance(DoStep3(w, c, w.form.tan_medium, f), 4)

TryStep4(w, c, fails) ==
    IF w.exc # "none" \/ w.next_step # 4 THEN w
    ELSE Advance(DoStep4(w, c, w.form.tan, fails), 5)

\* HttpResponseRedirect(reverse("...step%s" % next_step, resume_id))
Redirect(w, c) ==
    IF w.exc # "none" THEN w
    ELSE [w EXCEPT !.route = [step |-> w.next_step, resume_id |-> w.h[c].resume_id]]

\* The steps a form_valid chains, save_in_session and the redirect to the step reached.
ChainSteps(w, c, f, fails) ==
    Redirect(WrapperSaveInSession(TryStep4(TryStep3(TryStep2(w, c, f), c, f), c, fails),
                                  c, f), c)

\* next_step = n, the line after open() in the handler of step n
StartAt(w, n) == IF w.exc # "none" THEN w ELSE [w EXCEPT !.next_step = n]

\* The bank refuses the PIN: the __enter__ that raised in w1 raised FinTSClientPINError.
RefusedPin(w, w1) ==
    IF w1.exc # "FinTSError" THEN w1
    ELSE [Log(w1, w1.k, "pin_error") EXCEPT !.exc = "FinTSClientPINError", !.faults = w.faults]

\* The open() of step 1; with pin_wrong the bank refuses the PIN at the initialization.
Step1Open(w, c, f, pin_wrong) ==
    IF pin_wrong /\ w.exc = "none" THEN RefusedPin(w, WrapperOpen(w, c, "enter"))
    ELSE WrapperOpen(w, c, f)

\* The try block of step 1 after get_tan_mechanisms(): no mechanism is a form error.
Step1Try(w, c, f, fails) ==
    IF w.exc # "none" \/ w.h[c].tan_mechanisms = {} THEN w
    ELSE ChainSteps(StartAt(w, 2), c, f, fails)

\* finally: close(), run whatever the try block raised
FinallyClose(w, c, f) == Finally(w, HelperClose([w EXCEPT !.exc = "none"], c, f))

\* except FinTSClientPINError: a form error, then finally: self.wrapper.close()
Step1Finally(w, c, f) ==
    IF w.exc = "FinTSClientPINError"
    THEN HelperClose([w EXCEPT !.exc = "none"], c, f)
    ELSE FinallyClose(w, c, f)

\* FinTSLoginCreateStep1View.form_valid, inside with_fints
Step1FormValid(w, c, f, fails, pin_wrong) ==
    Step1Finally(
       Step1Try(
          WrapperGetTanMechanisms(Step1Open(WrapperLoadFromForm(w, c), c, f, pin_wrong), c),
          c, f, fails),
       c, f)

\* FinTSLoginCreateStep2View / Step3View / Step4View .form_valid, inside with_fints
StepFormValid(w, c, from, f, fails) ==
    ChainSteps(StartAt(WrapperOpen(w, c, f), from), c, f, fails)

\* _fetch_update_accounts: accounts and information are fetched unless the caller has
\* them; the media are fetched when a mechanism asks for a medium description.
FetchTanMedia(w, k, fails) ==
    IF w.exc # "none" \/ w.bank.needs_medium = {} THEN w
    ELSE LibOperation(w, k, "get_tan_media", fails)

FetchUpdateAccounts(w, c, known, fails) ==
    IF w.exc # "none" THEN w
    ELSE FetchTanMedia(
            IF known THEN w
            ELSE LibOperation(LibOperation(w, w.h[c].client, "get_sepa_accounts", fails),
                              w.h[c].client, "get_information", fails),
            w.h[c].client, fails)

\* The end of step 5: the user login's row is saved, the session entry deleted.
Step5Save(w, c) ==
    IF w.exc # "none" THEN w
    ELSE [WrapperDeleteFromSession(
             [w EXCEPT !.stm[w.h[c].user_login_pk] = w.h[c].tan_medium,
                       !.db[w.h[c].user_login_pk] = FromData(w, c)], c)
            EXCEPT !.route = [step |-> 6, resume_id |-> 0]]

\* close() as a statement of a handler
ThenClose(w, c, f) == IF w.exc # "none" THEN w ELSE HelperClose(w, c, f)

\* FinTSLoginCreateStep5View.form_valid, inside with_fints
Step5FormValid(w, c, f, fails) ==
    IF ~w.h[c].information THEN Raise(w, "TypeError")
    ELSE Step5Save(
            ThenClose(FetchUpdateAccounts(WrapperOpen(w, c, f), c, TRUE, fails), c, f), c)

\* ------------------------------------------------------ the PIN policy
\* FinTSHelper._restore_pin_state_from_securebox
RestorePinState(w, c) ==
    IF w.h[c].user_login_pk = 0 THEN w
    ELSE IF FetchValue(w.pc[w.h[c].user_login_pk], "transient_only", w.tier) # 0
         THEN [w EXCEPT !.h[c].pin_state = "save_temporary"]
    ELSE IF FetchValue(w.pc[w.h[c].user_login_pk], "permanent_only", w.tier) # 0
         THEN [w EXCEPT !.h[c].pin_state = "save_persistent"]
    ELSE w

\* FinTSHelper.save_pin, with AbstractFinTSHelper.save_pin for the states that store nothing
FinTSHelperSavePin(w, c, pin_state, pin) ==
    IF pin_state = "save_temporary"
    THEN [w EXCEPT !.pc[w.h[c].user_login_pk] = StoreValue(@, pin, "transient_only"),
                   !.h[c].pin_state = pin_state]
    ELSE IF pin_state = "save_persistent"
    THEN [w EXCEPT !.pc[w.h[c].user_login_pk] = StoreValue(@, pin, "permanent_only"),
                   !.h[c].pin_state = pin_state]
    ELSE [w EXCEPT !.h[c].pin = pin, !.h[c].pin_state = pin_state]

\* AbstractFinTSHelper.load_from_form as FinTSHelper inherits it (SAVE_PIN_IN_RESUME is
\* False): the sentinel is not saved.
FinTSHelperLoadFromForm(w, c) ==
    IF w.form.pin = 0 THEN w
    ELSE IF w.form.store_pin \notin PinStates THEN Raise(w, "ValueError")
    ELSE IF w.form.pin = PIN_CACHED_SENTINEL THEN w
    ELSE FinTSHelperSavePin(w, c, IF w.form.store_pin = "none" THEN "dontsave"
                                  ELSE w.form.store_pin, w.form.pin)

\* FinTSHelper.pin: the cached PIN when there is one, else AbstractFinTSHelper.pin, whose
\* `raise NotImplemented` is a TypeError.
FinTSHelperPin(w, c) ==
    IF w.exc # "none" THEN w
    ELSE IF w.h[c].user_login_pk # 0 /\ FetchValue(w.pc[w.h[c].user_login_pk], "any", w.tier) # 0
    THEN [w EXCEPT !.pin = FetchValue(w.pc[w.h[c].user_login_pk], "any", w.tier)]
    ELSE IF w.h[c].pin_state \in {"none", "dontsave", "save_on_resume"}
    THEN [w EXCEPT !.pin = w.h[c].pin]
    ELSE Raise(w, "TypeError")

\* AbstractFinTSHelper.open of a FinTSHelper: self.pin is read for the client's arguments;
\* with pin_wrong the bank refuses the PIN at the initialization.
FinTSHelperOpen(w, c, f, pin_wrong) ==
    IF pin_wrong /\ w.exc = "none"
    THEN RefusedPin(w, OpenWithPin(FinTSHelperPin(w, c), c, "enter"))
    ELSE OpenWithPin(FinTSHelperPin(w, c), c, f)

\* FinTSPluginInterface.get_fints: a FinTSHelper of the user login; it is never saved in
\* the session, so its uuid is not one of the resume ids.
GetFints(w, c, pk) ==
    RestorePinState(
       [HelperInit(w, c, "FinTSHelper", pk, w.stm[pk]) EXCEPT !.rid = w.rid,
                                                              !.h[c].resume_id = 0], c)

\* try: _fetch_update_accounts(...) finally: self.fints_helper.close()
RefreshTry(w, c, f, fails) ==
    IF w.exc # "none" THEN w
    ELSE FinallyClose(FetchUpdateAccounts(w, c, FALSE, fails), c, f)

\* FinTSLoginRefreshView.form_valid, inside with_fints
RefreshFormValid(w, c, f, fails, pin_wrong) ==
    RefreshTry(FinTSHelperOpen(w, c, f, pin_wrong), c, f, fails)

\* with_fints around a handler: the counter, the handler, then the cleanup whatever
\* the handler raised.
WithFints(w, c, body, order, failAt) ==
    Finally(body, LeaveScope([body EXCEPT !.exc = "none"], c, order, failAt))

\* What a bank may answer.
Banks == [mechs : {1..n : n \in 0..NumMechs}, media : {1..n : n \in 0..NumMedia},
          needs_medium : SUBSET BankMechs, init_tan : SUBSET BankMechs]

\* The enrolment starts on the page of step 1, with a bank of any kind.
InitEnrol ==
    /\ with_fints_active = [c \in Ctx |-> 0]
    /\ open_clients = [c \in Ctx |-> {}]
    /\ resumed_dialogs = [c \in Ctx |-> {}]
    /\ clients = [k \in EnrolClientIds |-> NoClient]
    /\ nextClient = 1
    /\ helper = [c \in Ctx |-> NoHelper]
    /\ session = [r \in ResumeIds |-> NoEntry]
    /\ nextResume = 1
    /\ fints_client_data = [l \in Logins |-> NoSnap]
    /\ faults = 0
    /\ last = NoCall
    /\ bank \in Banks
    /\ securebox = [r \in ResumeIds |-> NoPin]
    /\ route = [step |-> 1, resume_id |-> 0]
    /\ selected_tan_medium = [l \in Logins |-> 0]
    /\ cleaned_data = NoForm
    /\ pin_cache = [l \in Logins |-> NoPin]
    /\ tan_request = NoTanRequest
    /\ tan_context = NoTanContext
    /\ flicker_calls = <<>>

\* A request: setup() has made the helper of world w; the handler runs inside with_fints
\* and whatever it left open is force-closed in some order.
Request(w, c, op, body) ==
    \E order \in Perms(body.oc[c]) :
    \E failAt \in (IF faults < MaxFaults THEN body.oc[c] ELSE {}) \cup {0} :
       Commit(WithFints(w, c, body, order, failAt), op, c, nextClient)

\* The world a handler starts in: the counter raised, the helper setup() made, the form.
Entered1(w, c, form) == [w EXCEPT !.wfa[c] = @ + 1, !.form = form]

\* The wrapper setup() restores for the request of a step page.
Restored(c) ==
    HelperRestoreFromSession(World, c, "FinTSWrapperAddProcess", route.resume_id)

\* The PIN fields of a posted form: store_pin is a value of PinState where the field was
\* added by augment_form_pin_fields, and "0", "1" or "2" where the form is a PinRequestForm.
PinForms(store_pins, pins) ==
    {[NoForm EXCEPT !.store_pin = s, !.pin = p] : s \in store_pins, p \in pins}

\* POST of the step-1 form, for one of the logins and with one of the forms given.
PostStep1With(c, pks, forms) ==
    /\ route.step = 1
    /\ nextResume <= MaxResume
    /\ nextClient <= MaxEnrolClients
    /\ \E pk \in pks, form \in forms, pin_wrong \in BOOLEAN,
          f \in FaultChoices({"enter", "pause_dialog", "deconstruct", "exit"}),
          fails \in BOOLEAN :
          LET w == Entered1(HelperInit(World, c, "FinTSWrapperAddProcess", pk, 0), c, form)
          IN Request(w, c, "step1", Step1FormValid(w, c, f, fails, pin_wrong))

\* POST of the step-1 form.
PostStep1(c) == PostStep1With(c, Logins, PinForms({"dontsave", "save_temporary", "0"}, {First(Pins)}))

\* POST of the step-2 form: one of the listed mechanisms.
PostStep2(c) ==
    /\ route.step = 2
    /\ nextClient + 1 <= MaxEnrolClients
    /\ \E m \in session[route.resume_id].tan_mechanisms,
          f \in FaultChoices({"enter", "pause_dialog", "deconstruct", "exit"}),
          fails \in BOOLEAN :
          LET w == Entered1(Restored(c), c, [NoForm EXCEPT !.tan_mechanism = m])
          IN Request(w, c, "step2", StepFormValid(w, c, 2, f, fails))

\* POST of the step-3 form: one of the listed media.
PostStep3(c) ==
    /\ route.step = 3
    /\ nextClient + 1 <= MaxEnrolClients
    /\ \E m \in session[route.resume_id].tan_media,
          f \in FaultChoices({"enter", "pause_dialog", "deconstruct", "exit"}),
          fails \in BOOLEAN :
          LET w == Entered1(Restored(c), c, [NoForm EXCEPT !.tan_medium = m])
          IN Request(w, c, "step3", StepFormValid(w, c, 3, f, fails))

\* POST of the step-4 form: the TAN.
PostStep4(c) ==
    /\ route.step = 4
    /\ nextClient <= MaxEnrolClients
    /\ \E f \in FaultChoices({"enter", "pause_dialog", "deconstruct", "exit"}),
          fails \in BOOLEAN :
          LET w == Entered1(Restored(c), c, [NoForm EXCEPT !.tan = 1])
          IN Request(w, c, "step4", StepFormValid(w, c, 4, f, fails))

\* POST of the step-5 form.
PostStep5(c) ==
    /\ route.step = 5
    /\ nextClient <= MaxEnrolClients
    /\ \E f \in FaultChoices({"enter", "deconstruct", "exit"}), fails \in BOOLEAN :
          LET w == Entered1(Restored(c), c, NoForm)
          IN Request(w, c, "step5", Step5FormValid(w, c, f, fails))

\* The logins whose user login has a row.
EnrolledLogins == {l \in Logins : fints_client_data[l] # NoSnap}

\* POST of the refresh form of a user login that exists (setup() looks its row up), with
\* one of the forms given; the bank refuses the PIN or not, as pin_answers allows.
PostRefreshWith(c, forms, pin_answers) ==
    /\ nextClient <= MaxEnrolClients
    /\ \E pk \in EnrolledLogins,
          f \in FaultChoices({"enter", "deconstruct", "exit"}),
          fails \in BOOLEAN, form \in forms, pin_wrong \in pin_answers,
          tier \in {"transient", "permanent"} :
          LET w == Entered1(GetFints([World EXCEPT !.tier = tier], c, pk), c, form)
          IN Request(w, c, "refresh", RefreshFormValid(w, c, f, fails, pin_wrong))

\* POST of the refresh form after an enrolment.
PostRefresh(c) == PostRefreshWith(c, PinForms({"0"}, {First(Pins)}), {FALSE})

NextEnrol ==
    \E c \in HelperCtx :
       \/ PostStep1(c)
       \/ PostStep2(c)
       \/ PostStep3(c)
       \/ PostStep4(c)
       \/ PostStep5(c)
       \/ PostRefresh(c)

\* The enrolment workflow and the refresh, one request after the other.
SpecEnrol == InitEnrol /\ [][NextEnrol]_vars

\* ---------------------------------------------------------------- releases
\* One context and one more client: a client can be released while another one's entry
\* is left over.
InitRelease ==
    /\ with_fints_active = [c \in Ctx |-> 0]
    /\ open_clients = [c \in Ctx |-> {}]
    /\ resumed_dialogs = [c \in Ctx |-> {}]
    /\ clients = [k \in ReleaseClientIds |-> NoClient]
    /\ nextClient = 1
    /\ helper = [c \in Ctx |-> NoHelper]
    /\ session = [r \in ResumeIds |-> NoEntry]
    /\ nextResume = 1
    /\ fints_client_data = [l \in Logins |-> NoSnap]
    /\ faults = 0
    /\ last = NoCall
    /\ bank = PlainBank
    /\ securebox = [r \in ResumeIds |-> NoPin]
    /\ route = [step |-> 1, resume_id |-> 0]
    /\ selected_tan_medium = [l \in Logins |-> 0]
    /\ cleaned_data = NoForm
    /\ pin_cache = [l \in Logins |-> NoPin]
    /\ tan_request = NoTanRequest
    /\ tan_context = NoTanContext
    /\ flicker_calls = <<>>

NextRelease ==
    \E c \in HelperCtx :
       \/ EnterScope(c)
       \/ ExitScope(c)
       \/ CallOpenClientAmong(c, ReleaseClientIds)
       \/ CallResumeClientAmong(c, ReleaseClientIds)
       \/ CallCloseClientAmong(c, ReleaseClientIds)
       \/ CallPauseClientAmong(c, ReleaseClientIds)

\* The registry in one context, with a third client.
SpecRelease == InitRelease /\ [][NextRelease]_vars

\* ---------------------------------------------------------------- the PIN policy
\* The views of views.py: FinTSClientMixin.fints_client, the PIN it gives the client.
LegacyPin(w, pk) ==
    IF w.form.pin # PIN_CACHED_SENTINEL THEN [w EXCEPT !.pin = w.form.pin]
    ELSE IF FetchValue(w.pc[pk], "any", w.tier) = 0 THEN Raise(w, "KeyError")
    ELSE [w EXCEPT !.pin = FetchValue(w.pc[pk], "any", w.tier)]

\* FinTS3PinTanClient(..., pin, ..., from_data=fints_user_login.fints_client_data)
LegacyConstruct(w, c, pk) ==
    IF w.exc # "none" THEN w
    ELSE [w EXCEPT !.cl[w.next] = LibConstruct(c, pk, w.db[pk]), !.k = w.next,
                   !.next = @ + 1]

\* The body of `with self.fints_client(...) as client`: `with client:` around the
\* view's calls; with pin_wrong the bank refuses the PIN at the initialization.
LegacyBody(w, pin_wrong) ==
    IF w.exc # "none" THEN w
    ELSE IF pin_wrong THEN RefusedPin(w, LibEnter(w, w.k, "enter"))
    ELSE LibExit(LibEnter(w, w.k, "none"), w.k, "exit", "none")

\* except FinTSClientPINError: the cached PIN is deleted and the form gets an error
LegacyExcept(w, pk) ==
    IF w.exc # "FinTSClientPINError" THEN w
    ELSE [w EXCEPT !.pc[pk] = NoPin, !.exc = "none", !.ret = FALSE]

\* The store_pin choices "1" and "2" of the form, and the sentinel that is not stored.
LegacyStorePin(w, pk) ==
    IF w.form.store_pin \notin {"1", "2"} THEN [w EXCEPT !.pc[pk] = NoPin]
    ELSE IF w.form.pin = PIN_CACHED_SENTINEL THEN w
    ELSE [w EXCEPT !.pc[pk] = StoreValue(@, w.pin, IF w.form.store_pin = "1"
                                                   THEN "transient_only"
                                                   ELSE "permanent_only")]

\* if pin_correct: the client's data are saved with the user login, then the PIN
LegacySave(w, pk) ==
    IF w.exc # "none" \/ ~w.ret THEN w
    ELSE LegacyStorePin([LibDeconstruct(w, w.k, TRUE, "none")
                           EXCEPT !.db[pk] = LibDeconstruct(w, w.k, TRUE, "none").snap], pk)

LegacyFintsClient(w, c, pk, pin_wrong) ==
    LegacySave(LegacyExcept(LegacyBody(LegacyConstruct(LegacyPin(w, pk), c, pk), pin_wrong),
                            pk), pk)

\* The one user login that was enrolled before: its row holds a client's data. The PIN policy
\* is followed without faults of the transport: none is left to inject.
EnrolledSnap(l) == [of |-> 0, login |-> l, mech |-> First(BankMechs), medium |-> 0,
                    priv |-> TRUE]

\* The requests that are followed come after those that enrolled the user logins; the
\* client ids left are enough for two requests, one after the other.
PinFirstClient == MaxEnrolClients - 1

InitPin ==
    /\ with_fints_active = [c \in Ctx |-> 0]
    /\ open_clients = [c \in Ctx |-> {}]
    /\ resumed_dialogs = [c \in Ctx |-> {}]
    /\ clients = [k \in EnrolClientIds |-> NoClient]
    /\ nextClient = PinFirstClient
    /\ helper = [c \in Ctx |-> NoHelper]
    /\ session = [r \in ResumeIds |-> NoEntry]
    /\ nextResume = 1
    /\ fints_client_data = [l \in Logins |-> IF l = First(Logins) THEN EnrolledSnap(l)
                                              ELSE NoSnap]
    /\ faults = MaxFaults
    /\ last = NoCall
    /\ bank = PlainBank
    /\ securebox = [r \in ResumeIds |-> NoPin]
    /\ route = [step |-> 1, resume_id |-> 0]
    /\ selected_tan_medium = [l \in Logins |-> 0]
    /\ cleaned_data = NoForm
    /\ pin_cache = [l \in Logins |-> NoPin]
    /\ tan_request = NoTanRequest
    /\ tan_context = NoTanContext
    /\ flicker_calls = <<>>

\* The values a PIN field can hold: a PIN or the sentinel.
PinInputs == Pins \cup {PIN_CACHED_SENTINEL}

\* FinTSPluginInterface.get_fints(pk): the helper of a user login
PinGetFints(c) ==
    \E pk \in EnrolledLogins, tier \in {"transient", "permanent"} :
       Commit(GetFints([World EXCEPT !.tier = tier], c, pk), "get_fints", c, 0)

\* helper.load_from_form(form) with a form that augment_form_pin_fields completed
CallLoadFromForm(c) ==
    /\ helper[c].cls = "FinTSHelper"
    /\ helper[c].client = 0
    /\ \E form \in PinForms({"dontsave", "save_temporary", "save_persistent"}, PinInputs) :
          Commit(FinTSHelperLoadFromForm([World EXCEPT !.form = form], c),
                 "load_from_form", c, 0)

\* helper.pin, as open() reads it
CallPin(c) ==
    /\ helper[c].cls = "FinTSHelper"
    /\ \E tier \in {"transient", "permanent"} :
          Commit(FinTSHelperPin([World EXCEPT !.tier = tier], c), "pin", c, 0)

\* POST of the refresh form with any PIN and any answer of the bank
PinPostRefresh(c) == PostRefreshWith(c, PinForms({"0", "1", "2"}, PinInputs), BOOLEAN)

\* POST of a form of views.py that asks for the PIN
LegacyRequest(c) ==
    /\ nextClient <= MaxEnrolClients
    /\ \E pk \in EnrolledLogins, form \in PinForms({"0", "1", "2"}, PinInputs),
          pin_wrong \in BOOLEAN, tier \in {"transient", "permanent"} :
          LET w == LegacyFintsClient([World EXCEPT !.form = form, !.tier = tier], c, pk,
                                     pin_wrong)
          IN Commit(w, "legacy", c, w.k)

\* POST of the step-1 form with any PIN and any preference
PinPostStep1(c) ==
    PostStep1With(c, EnrolledLogins,
                  PinForms({"dontsave", "save_temporary", "save_persistent"}, PinInputs))

NextPin ==
    \E c \in HelperCtx :
       \/ PinGetFints(c)
       \/ CallLoadFromForm(c)
       \/ CallPin(c)
       \/ PinPostRefresh(c)
       \/ LegacyRequest(c)
       \/ PinPostStep1(c)

\* The handlers that take a PIN, one request after the other.
SpecPin == InitPin /\ [][NextPin]_vars

\* ----------------------------------------------------- the PIN fields of a form
\* An augment_form_pin_fields that would show the cached PIN in the field.
AugmentFormWithSecret(w, c) ==
    [w EXCEPT !.initial = [pin |-> FetchValue(w.pc[w.h[c].user_login_pk], "any", w.tier),
                           store_pin |-> w.h[c].pin_state]]

\* FinTSHelper.augment_form_pin_fields on a PinRequestForm: the fields exist, store_pin
\* gets the pin_state as initial and pin the sentinel when the pin_state says a PIN is cached.
AugmentFormPinFields(w, c) ==
    [w EXCEPT !.initial =
        [pin |-> IF w.h[c].pin_state \in {"save_persistent", "save_temporary"}
                 THEN PIN_CACHED_SENTINEL ELSE NoInitial.pin,
         store_pin |-> IF w.h[c].pin_state \in {"dontsave", "save_temporary", "save_persistent"}
                       THEN w.h[c].pin_state ELSE NoInitial.store_pin]]

\* FinTSClientFormMixin._pin_store_location
PinStoreLocation(w, pk) ==
    IF FetchValue(w.pc[pk], "transient_only", w.tier) # 0 THEN "1"
    ELSE IF FetchValue(w.pc[pk], "permanent_only", w.tier) # 0 THEN "2"
    ELSE "0"

\* FinTSClientFormMixin.augment_form
AugmentForm(w, pk) ==
    [w EXCEPT !.initial = [pin |-> IF PinStoreLocation(w, pk) # "0"
                                   THEN PIN_CACHED_SENTINEL ELSE NoInitial.pin,
                           store_pin |-> PinStoreLocation(w, pk)]]

\* get_form of a view that asks for the PIN through a FinTSHelper: the helper of the user
\* login is made, load_from_user_login reads the PIN state, the form is augmented.
CommonGetForm(c) ==
    \E pk \in EnrolledLogins, tier \in {"transient", "permanent"} :
       Commit(AugmentFormPinFields(GetFints([World EXCEPT !.tier = tier], c, pk), c),
              "get_form", c, 0)

\* get_form of a view with FinTSClientFormMixin
ClientGetForm(c) ==
    \E pk \in EnrolledLogins, tier \in {"transient", "permanent"} :
       Commit(AugmentForm([World EXCEPT !.tier = tier, !.h[c] = NoHelper], pk),
              "client_get_form", c, pk)

NextForm ==
    \E c \in HelperCtx :
       \/ CommonGetForm(c)
       \/ ClientGetForm(c)
       \/ CallLoadFromForm(c)
       \/ LegacyRequest(c)

\* Forms that ask for the PIN are built between the requests that cache and purge it.
SpecForm == InitPin /\ [][NextForm]_vars

\* ---------------------------------------------------------------- concurrent spans
\* A request's helper of a user login (get_fints), while it holds no client.
SpanSetup(c) ==
    /\ helper[c].client = 0
    /\ \E pk \in Logins : Commit(GetFints(World, c, pk), "get_fints", c, 0)

\* get_readonly_client(): an offline client from the user login's data, with the
\* helper's TAN mechanism when it has one
GetReadonlyClient(w, c) ==
    [w EXCEPT !.cl[w.next] = [LibConstruct(c, w.h[c].user_login_pk, FromData(w, c))
                                EXCEPT !.mech = IF w.h[c].tan_mechanism # 0
                                                THEN w.h[c].tan_mechanism ELSE @],
              !.k = w.next, !.next = @ + 1]

\* FinTSLoginEditView.form_valid with a changed tan_method: the data of a read-only
\* client with the mechanism set are saved with the user login.
EditTanMethod(w, c, m) ==
    [LibDeconstruct([w EXCEPT !.cl[w.k].mech = m], w.k, TRUE, "none")
       EXCEPT !.db[w.h[c].user_login_pk] =
                 LibDeconstruct([w EXCEPT !.cl[w.k].mech = m], w.k, TRUE, "none").snap]

PostEditTanMethodAmong(c, ids) ==
    /\ helper[c].cls = "FinTSHelper"
    /\ helper[c].client = 0
    /\ nextClient \in ids
    /\ \E m \in BankMechs :
          Commit(EditTanMethod(GetReadonlyClient(World, c), c, m), "edit", c, nextClient)

PostEditTanMethod(c) == PostEditTanMethodAmong(c, ClientIds)

NextSpan ==
    \E c \in Ctx :
       \/ SpanSetup(c)
       \/ EnterScope(c)
       \/ ExitScope(c)
       \/ CallHelperOpen(c)
       \/ CallHelperClose(c)
       \/ PostEditTanMethod(c)

\* Dialog spans of FinTSHelpers in requests that run side by side.
SpecSpan == Init /\ [][NextSpan]_vars

\* One FinTSHelper whose dialog is paused into the session and resumed by a later
\* request, with the login edit view of login.py running in between.
NextResume ==
    \E c \in HelperCtx :
       \/ EnterScope(c)
       \/ ExitScope(c)
       \/ SetupNew(c)
       \/ SetupRestore(c)
       \/ CallHelperOpenAmong(c, ReleaseClientIds)
       \/ CallHelperClose(c)
       \/ CallHelperSaveInSession(c)
       \/ PostEditTanMethodAmong(c, ReleaseClientIds)

SpecResume == InitRelease /\ [][NextResume]_vars

\* ---------------------------------------------------------------- the TAN challenge
\* The hexadecimal digits a flicker code is made of here (int(x, 16) of its characters).
FlickerDigits == {5, 12}

\* What hhd_flicker_parse(...).render() can give: a string of hexadecimal digits, two a byte.
FlickerPayloads ==
    UNION {[1..(2 * n) -> FlickerDigits] : n \in 1..MaxFlickerBytes}

\* The need-TAN responses: the text is always there, the HHD_UC challenge and the matrix
\* image are attributes the library sets independently of each other.
TanRequests == [challenge_html : {1}, challenge_hhduc : {0, 1}, challenge_matrix : {0, 1}]

\* get_tan_context_data(tan_request): rendered is what the library renders the HHD_UC
\* challenge to and css_class the name made from uuid4(); the data URL of the image
\* stands as the image's number.
GetTanContextData(request, rendered, css_class) ==
    IF request = NoTanRequest THEN NoTanContext
    ELSE [challenge |-> request.challenge_html,
          challenge_flicker |-> IF request.challenge_hhduc # 0 THEN rendered ELSE <<>>,
          challenge_flicker_css_class |-> IF request.challenge_hhduc # 0 THEN css_class
                                          ELSE 0,
          challenge_matrix_url |-> request.challenge_matrix]

\* (x >> b) & 1
Bit(x, b) == (x \div (2 ^ b)) % 2

\* stream = [1, 0, 31, 30, 31, 30]
FlickerPrefix == <<1, 0, 31, 30, 31, 30>>

\* The frames without the swap of the nibbles: the digit at i itself.
FlickerFramesUnswapped(data) ==
    [n \in 1..(2 * Len(data)) |->
        IF n % 2 = 1 THEN 2 * data[(n + 1) \div 2] + 1 ELSE 2 * data[(n + 1) \div 2]]

\* The two frames of each character: the digit at i ^ 1 (the nibbles of a byte swapped),
\* shifted left, with the clock bit set and then cleared.
FlickerFrames(data) ==
    [n \in 1..(2 * Len(data)) |->
        LET i == (n + 1) \div 2
            d == data[IF i % 2 = 1 THEN i + 1 ELSE i - 1]
        IN IF n % 2 = 1 THEN 2 * d + 1 ELSE 2 * d]

\* A stream that were kept between the calls: the frames are appended to the stream the
\* call before has left.
FlickerStreamKept(data) ==
    (IF flicker_calls = <<>> THEN FlickerPrefix
     ELSE flicker_calls[Len(flicker_calls)].stream) \o FlickerFrames(data)

FlickerStream(data) == FlickerPrefix \o FlickerFrames(data)

\* The keyframes of one bar: for every frame in which the bar's bit has changed (in the
\* first frame every bit counts as changed) the frame's index and the bar's colour.
Keyframes(stream, bit_index) ==
    LET Changed(index) == \/ index = 1
                          \/ Bit(stream[index], bit_index) # Bit(stream[index - 1], bit_index)
        Upto(n) == {k \in 1..n : Changed(k)}
    IN [j \in 1..Cardinality(Upto(Len(stream))) |->
           LET index == CHOOSE k \in Upto(Len(stream)) : Cardinality(Upto(k)) = j
           IN <<index - 1, IF Bit(stream[index], bit_index) = 1 THEN "#fff" ELSE "#000">>]

\* get_flicker_css(data, css_class): the rules of the five bars; per_frame and duration
\* are both fixed by the number of frames.
GetFlickerCss(data, css_class) ==
    [css_class |-> css_class,
     frames |-> Len(FlickerStream(data)),
     keyframes |-> [b \in 0..4 |-> Keyframes(FlickerStream(data), b)]]

\* data[i ^ 1] with i ^ 1 past the end of the string: IndexError
FlickerIndexError(data) ==
    \E i \in 1..Len(data) : (IF i % 2 = 1 THEN i + 1 ELSE i - 1) \notin DOMAIN data

\* What a call that raised has returned: nothing.
NoCss == [css_class |-> 0, frames |-> 0, keyframes |-> [b \in 0..4 |-> <<>>]]

\* One call of get_flicker_css, as it is recorded: the arguments, the stream it built,
\* what it returned and how it ended.
FlickerCall(data, css_class) ==
    [data |-> data,
     css_class |-> css_class,
     exc |-> IF FlickerIndexError(data) THEN "IndexError" ELSE "none",
     stream |-> IF FlickerIndexError(data) THEN <<>> ELSE FlickerStream(data),
     css |-> IF FlickerIndexError(data) THEN NoCss ELSE GetFlickerCss(data, css_class)]

InitTan ==
    /\ with_fints_active = [c \in Ctx |-> 0]
    /\ open_clients = [c \in Ctx |-> {}]
    /\ resumed_dialogs = [c \in Ctx |-> {}]
    /\ clients = [k \in ClientIds |-> NoClient]
    /\ nextClient = 1
    /\ helper = [c \in Ctx |-> NoHelper]
    /\ session = [r \in ResumeIds |-> NoEntry]
    /\ nextResume = 1
    /\ fints_client_data = [l \in Logins |-> NoSnap]
    /\ faults = 0
    /\ last = NoCall
    /\ bank = PlainBank
    /\ securebox = [r \in ResumeIds |-> NoPin]
    /\ route = [step |-> 1, resume_id |-> 0]
    /\ selected_tan_medium = [l \in Logins |-> 0]
    /\ cleaned_data = NoForm
    /\ pin_cache = [l \in Logins |-> NoPin]
    /\ tan_request \in TanRequests
    /\ tan_context = NoTanContext
    /\ flicker_calls = <<>>

\* The bank answers an operation with a need-TAN response.
NeedTan ==
    /\ tan_request' \in TanRequests
    /\ UNCHANGED <<with_fints_active, open_clients, resumed_dialogs, clients, nextClient,
                   helper, session, nextResume, fints_client_data, faults, last,
                   bank, securebox, route, selected_tan_medium, cleaned_data,
                   pin_cache, tan_context, flicker_calls>>

\* A view builds the context of the TAN page.
CallGetTanContextData ==
    /\ \E rendered \in FlickerPayloads, css_class \in CssClasses :
          tan_context' = GetTanContextData(tan_request, rendered, css_class)
    /\ UNCHANGED <<with_fints_active, open_clients, resumed_dialogs, clients, nextClient,
                   helper, session, nextResume, fints_client_data, faults, last,
                   bank, securebox, route, selected_tan_medium, cleaned_data,
                   pin_cache, tan_request, flicker_calls>>

\* The template calls challenge_flicker_css: get_flicker_css(flicker.render(), css_class)
CallFlickerCss ==
    /\ tan_context.challenge_flicker # <<>>
    /\ Len(flicker_calls) < MaxFlickerCalls
    /\ flicker_calls' = Append(flicker_calls,
          FlickerCall(tan_context.challenge_flicker,
                      tan_context.challenge_flicker_css_class))
    /\ UNCHANGED <<with_fints_active, open_clients, resumed_dialogs, clients, nextClient,
                   helper, session, nextResume, fints_client_data, faults, last,
                   bank, securebox, route, selected_tan_medium, cleaned_data,
                   pin_cache, tan_request, tan_context>>

NextTan ==
    \/ NeedTan
    \/ CallGetTanContextData
    \/ CallFlickerCss

\* The TAN page: responses of the bank, their contexts and the flicker animations.
SpecTan == InitTan /\ [][NextTan]_vars

\* The strings of hexadecimal digits get_flicker_css can be called with, of every length.
MaxFlickerLen == 2 * MaxFlickerBytes + 1
HexStrings ==
    UNION {[1..n -> FlickerDigits \cup {0, 15}] : n \in 1..MaxFlickerLen}

\* get_flicker_css with any arguments: they are held in the fields of a context.
InitFlicker ==
    /\ with_fints_active = [c \in Ctx |-> 0]
    /\ open_clients = [c \in Ctx |-> {}]
    /\ resumed_dialogs = [c \in Ctx |-> {}]
    /\ clients = [k \in ClientIds |-> NoClient]
    /\ nextClient = 1
    /\ helper = [c \in Ctx |-> NoHelper]
    /\ session = [r \in ResumeIds |-> NoEntry]
    /\ nextResume = 1
    /\ fints_client_data = [l \in Logins |-> NoSnap]
    /\ faults = 0
    /\ last = NoCall
    /\ bank = PlainBank
    /\ securebox = [r \in ResumeIds |-> NoPin]
    /\ route = [step |-> 1, resume_id |-> 0]
    /\ selected_tan_medium = [l \in Logins |-> 0]
    /\ cleaned_data = NoForm
    /\ pin_cache = [l \in Logins |-> NoPin]
    /\ tan_request = NoTanRequest
    /\ \E data \in HexStrings, css_class \in CssClasses :
          tan_context = [NoTanContext EXCEPT !.challenge_flicker = data,
                                             !.challenge_flicker_css_class = css_class]
    /\ flicker_calls = <<>>

NextFlicker == CallFlickerCss

\* get_flicker_css as a function of its arguments.
SpecFlicker == InitFlicker /\ [][NextFlicker]_vars

\* ================================================================ claims
Entered(cl) == Count(cl.ev, "enter") + Count(cl.ev, "resume_enter") > 0

Live(k) == clients[k].st = "open" /\ k \in open_clients[clients[k].ctx]

\* C1: for one login, requests running in different contexts never hold two live
\* dialogs at the same time.
C1_AtMostOneLiveDialogPerLogin ==
    \A k1, k2 \in ClientIds :
       (Live(k1) /\ Live(k2) /\ clients[k1].login = clients[k2].login)
          => clients[k1].ctx = clients[k2].ctx

\* C2: when the outermost with_fints scope of a context is left, every client still in
\* the live set has an exit invoked and the live set (open_clients and resumed_dialogs)
\* is empty afterwards, whichever force-close raises.
C2_ScopeExitForceClosesAll ==
    [][(last'.op = "exit_scope" /\ with_fints_active'[last'.ctx] = 0)
         => /\ open_clients'[last'.ctx] = {}
            /\ resumed_dialogs'[last'.ctx] = {}
            /\ \A k \in open_clients[last'.ctx] :
                  Exits(clients'[k]) = Exits(clients[k]) + 1]_vars

\* C3: whenever no scope is active in a context, every client opened in it has had its
\* exit invoked exactly once.
C3_EveryOpenedClientExitedOnce ==
    \A k \in ClientIds :
       (Entered(clients[k]) /\ with_fints_active[clients[k].ctx] = 0)
          => Exits(clients[k]) = 1

\* C4: open_client or resume_client called while no with_fints scope is active raises
\* the assertion error and changes neither open_clients nor resumed_dialogs.
C4_OpenOutsideScopeFails ==
    [][(last'.op \in {"open_client", "resume_client"} /\ with_fints_active[last'.ctx] = 0)
         => /\ last'.exc = "AssertionError"
            /\ open_clients' = open_clients
            /\ resumed_dialogs' = resumed_dialogs
            /\ clients' = clients]_vars

C4_Witness ==
    /\ last.op = "resume_client"
    /\ last.exc = "AssertionError"
    /\ with_fints_active[last.ctx] = 0

\* C5: the return of a nested with_fints call (an enclosing scope stays active) neither
\* force-closes nor unregisters any client.
C5_InnerScopeExitLeavesClients ==
    [][(last'.op = "exit_scope" /\ with_fints_active'[last'.ctx] > 0)
         => /\ open_clients' = open_clients
            /\ resumed_dialogs' = resumed_dialogs
            /\ clients' = clients]_vars

\* C6: pause_client or close_client on a client that is not in open_clients raises the
\* assertion error and changes nothing; after either has returned, the client is no
\* longer in open_clients, so a second release of it fails.
C6_ReleaseOnlyFromOpen ==
    [][last'.op \in {"pause_client", "close_client"}
         => /\ last'.k \notin open_clients[last'.ctx]
                 => /\ last'.exc = "AssertionError"
                    /\ open_clients' = open_clients
                    /\ resumed_dialogs' = resumed_dialogs
                    /\ clients' = clients
            /\ last'.exc = "none" => last'.k \notin open_clients'[last'.ctx]]_vars

C6_Witness ==
    /\ last.op \in {"pause_client", "close_client"}
    /\ last.exc = "AssertionError"
    /\ Exits(clients[last.k]) = 1
    /\ last.k \notin open_clients[last.ctx]

\* C7: after a close_client whose underlying close raised, the client is neither in
\* open_clients nor a key of resumed_dialogs.
C7_FailedCloseStillReleases ==
    (last.op = "close_client" /\ last.exc = "FinTSError")
       => /\ last.k \notin open_clients[last.ctx]
          /\ last.k \notin resumed_dialogs[last.ctx]

\* pause_dialog, then the snapshot with private detail, then the exit, in this order,
\* and no snapshot without private detail.
PausedInOrder(ev) ==
    /\ \E i, j, l \in 1..Len(ev) :
          /\ i < j /\ j < l
          /\ ev[i] = "pause_dialog"
          /\ ev[j] = "deconstruct_private"
          /\ ev[l] \in {"exit", "scope_exit"}
    /\ Count(ev, "deconstruct_public") = 0

\* C8: a save_in_session that pauses a client gets from pause_client the pair (snapshot
\* with including_private = true, continuation blob of that client); the blob was taken
\* before the snapshot and the release, and the pair is what the helper keeps.
C8_PauseCapturesPrivateSnapshot ==
    (last.op = "save_in_session" /\ last.exc = "none" /\ last.k # 0)
       => LET c == last.ctx
              k == last.k
          IN /\ last.snap = [of |-> k, login |-> clients[k].login, mech |-> clients[k].mech,
                             medium |-> clients[k].medium, priv |-> TRUE]
             /\ last.blob = k
             /\ PausedInOrder(clients[k].ev)
             /\ k \notin open_clients[c]
             /\ FromData(World, c) = last.snap
             /\ helper[c].dialog_data = k
             /\ session[helper[c].resume_id].dialog_data = k

C8_Witness ==
    /\ last.op = "save_in_session"
    /\ last.exc = "none"
    /\ last.k # 0
    /\ clients[last.k].st = "paused"
    /\ last.snap.priv

\* The last step was a close() or reopen() of a helper that held a client, and returned.
HelperClosed ==
    /\ last.op \in {"helper_close", "helper_reopen"}
    /\ last.k # 0
    /\ last.exc = "none"

\* C9 (as amended): the snapshot that the helper's close(), also the close inside
\* reopen(), takes and persists is taken with including_private = true.
C9_HelperCloseKeepsPrivate ==
    HelperClosed
       => /\ Count(clients[last.k].ev, "deconstruct_public") = 0
          /\ FromData(World, last.ctx).of = last.k
          /\ FromData(World, last.ctx).priv

C9_Witness ==
    /\ HelperClosed
    /\ last.op = "helper_reopen"
    /\ Exits(clients[last.k]) = 1
    /\ FromData(World, last.ctx).priv

\* C9 (as claimed): the snapshot of a normal close by the helper is taken with
\* including_private = false.
C9_HelperCloseOmitsPrivate ==
    HelperClosed
       => /\ Count(clients[last.k].ev, "deconstruct_private") = 0
          /\ ~FromData(World, last.ctx).priv

\* C10: a client the helper resumed from the blob and the snapshot of one pause is open,
\* registered with its resume scope, and has the identity, the TAN mechanism and the
\* TAN medium of the client that was paused.
C10_ResumeRoundTrip ==
    \A c \in Ctx :
       LET k == helper[c].client IN
       (/\ last.op = "helper_open" /\ last.ctx = c /\ last.exc = "none"
        /\ k # 0
        /\ clients[k].blob # 0
        /\ clients[k].snapOf = clients[k].blob)
          => LET p == clients[k].blob
             IN /\ clients[k].st = "open"
                /\ k \in open_clients[c]
                /\ k \in resumed_dialogs[c]
                /\ clients[k].login = clients[p].login
                /\ clients[k].mech = clients[p].mech
                /\ clients[k].medium = clients[p].medium

\* ------------------------------------------------- claims on the enrolment
\* Client k was opened by resume_client (its resume scope was entered).
Resumed(k) == Count(clients[k].ev, "resume_enter") > 0

\* C11: no two clients are resumed from the same continuation blob: the second
\* resume_client with a blob already used does not yield a second open dialog.
C11_BlobResumedOnce ==
    \A k1, k2 \in DOMAIN clients :
       (Resumed(k1) /\ Resumed(k2) /\ clients[k1].blob = clients[k2].blob) => k1 = k2

\* C12: a step that resumes uses the blob of the latest pause of the workflow: between
\* the client that was paused and the client resumed from its blob, the workflow has
\* entered no other dialog.
C12_ResumeUsesLatestBlob ==
    \A k \in DOMAIN clients :
       Resumed(k) => \A j \in DOMAIN clients :
                        (clients[k].blob < j /\ j < k) => ~Entered(clients[j])

Handlers == {"step1", "step2", "step3", "step4", "step5", "refresh"}

SoleOptions ==
    /\ Cardinality(bank.mechs) = 1
    /\ Cardinality(bank.media) = 1

\* Step 1 has returned a redirect for a dialog it opened.
Step1Done ==
    /\ last.op = "step1"
    /\ last.exc = "none"
    /\ Entered(clients[last.k])

\* C14: with one mechanism and one medium offered and no TAN demanded by the
\* initialization, step 1 redirects to step 5: accounts and information were fetched on
\* the one dialog step 1 opened, and steps 2, 3 and 4 were not stopped at.
C14_SoleOptionsReachStage5 ==
    (Step1Done /\ SoleOptions /\ ~LibInitTanResponse(World, last.k))
       => /\ route.step = 5
          /\ helper[last.ctx].information
          /\ nextClient = last.k + 1
          /\ Count(clients[last.k].ev, "get_sepa_accounts") = 1
          /\ Count(clients[last.k].ev, "get_information") = 1

C14_Witness ==
    /\ Step1Done /\ SoleOptions /\ ~LibInitTanResponse(World, last.k)
    /\ route.step = 5
    /\ bank.needs_medium # {}

\* C15: with one mechanism and one medium offered, the workflow never writes a resume
\* entry to the session and never keeps a PIN under a resume label.
C15_SoleOptionsNoSessionToken ==
    SoleOptions => \A r \in ResumeIds : session[r] = NoEntry /\ securebox[r] = NoPin

\* C16: step 1 with more than one mechanism offered pauses the dialog, saves the
\* workflow with the blob of that pause in the session and redirects to step 2; with
\* one mechanism it takes that one and goes past step 2.
C16_Step1AsksForMechanism ==
    Step1Done
       => LET h == helper[last.ctx] IN
          /\ Cardinality(bank.mechs) > 1
                => /\ route = [step |-> 2, resume_id |-> h.resume_id]
                   /\ clients[last.k].st = "paused"
                   /\ session[h.resume_id].cls = "FinTSWrapperAddProcess"
                   /\ session[h.resume_id].dialog_data = last.k
                   /\ session[h.resume_id].tan_mechanisms = bank.mechs
                   /\ session[h.resume_id].client_data.of = last.k
          /\ Cardinality(bank.mechs) = 1
                => /\ route.step \in {3, 4, 5}
                   /\ h.tan_mechanism = First(bank.mechs)
                   /\ nextClient = last.k + 1

C16_Witness ==
    /\ Step1Done
    /\ Cardinality(bank.mechs) > 1
    /\ route.step = 2

\* The events of a client that was resumed, then closed by close() with a private snapshot.
ClosedAfterResume(cl) ==
    /\ cl.st = "closed"
    /\ Head(cl.ev) = "resume_enter"
    /\ Count(cl.ev, "deconstruct_private") = 1
    /\ Count(cl.ev, "pause_dialog") = 0
    /\ Exits(cl) = 1

\* C17: a step 2 that returns, given a mechanism other than the one the workflow holds,
\* has closed the dialog it resumed (whose mechanism it left alone) and opened a new one
\* with the mechanism given; given the mechanism held, it has opened no other dialog.
C17_OtherMechanismReopens ==
    [][(last'.op = "step2" /\ last'.exc = "none")
         => LET held == session[route.resume_id].tan_mechanism
                m == cleaned_data'.tan_mechanism
                k == nextClient
            IN IF m # held
               THEN /\ nextClient' = k + 2
                    /\ ClosedAfterResume(clients'[k])
                    /\ clients'[k].mech = held
                    /\ Head(clients'[k + 1].ev) = "enter"
                    /\ clients'[k + 1].blob = 0
                    /\ clients'[k + 1].mech = m
                    /\ helper'[last'.ctx].tan_mechanism = m
               ELSE /\ nextClient' = k + 1
                    /\ Count(clients'[k].ev, "deconstruct_private") = 1
                    /\ Count(clients'[k].ev, "pause_dialog") = 1]_vars

C17_Witness ==
    /\ last.op = "step2"
    /\ last.exc = "none"
    /\ nextClient = last.k + 2
    /\ clients[last.k + 1].mech = cleaned_data.tan_mechanism
    /\ clients[last.k].mech # cleaned_data.tan_mechanism

\* C18: a step 3 that returns has made the medium given in the form the workflow's
\* tan_medium, in the object and in the session.
C18_SubmittedMediumIsKept ==
    (last.op = "step3" /\ last.exc = "none")
       => /\ helper[last.ctx].tan_medium = cleaned_data.tan_medium
          /\ session[helper[last.ctx].resume_id].tan_medium = cleaned_data.tan_medium

\* The client of the latest open_client (not resume_client) of the workflow.
LatestOpened == CHOOSE k \in DOMAIN clients :
                   /\ Count(clients[k].ev, "enter") > 0
                   /\ \A j \in DOMAIN clients : Count(clients[j].ev, "enter") > 0 => j <= k

\* C19: a handler that gets as far as step 4 without a TAN in its form stops there
\* exactly when the initialization of the dialog opened last demanded a TAN.
C19_Stage4IffInitTan ==
    (last.op \in {"step1", "step2", "step3"} /\ last.exc = "none" /\ route.step \in {4, 5})
       => (route.step = 4 <=> LibInitTanResponse(World, LatestOpened))

\* C20: after step 5 has returned, the session entry of the workflow and the PIN under
\* its resume label are gone, the dialog it resumed is closed and the snapshot of that
\* close is the user login's client data.
C20_FinalizeDeletesToken ==
    (last.op = "step5" /\ last.exc = "none")
       => LET h == helper[last.ctx] IN
          /\ session[h.resume_id] = NoEntry
          /\ securebox[h.resume_id] = NoPin
          /\ route.step = 6
          /\ ClosedAfterResume(clients[last.k])
          /\ last.k \notin open_clients[last.ctx] \cup resumed_dialogs[last.ctx]
          /\ fints_client_data[h.user_login_pk].of = last.k
          /\ fints_client_data[h.user_login_pk].priv
          /\ selected_tan_medium[h.user_login_pk] = h.tan_medium

C20_Witness ==
    /\ last.op = "step5"
    /\ last.exc = "none"
    /\ helper[last.ctx].pin_state = "save_on_resume"
    /\ helper[last.ctx].pin # 0
    /\ fints_client_data[helper[last.ctx].user_login_pk].of = last.k

\* C21: a step of the enrolment changes the PIN kept under a login's cache label only if
\* it is step 5 and the preference given at step 1 was to keep the PIN for the session or
\* for good; the PIN kept under the resume label is never in the permanent tier.
C21_DurablePinOnlyAtStage5 ==
    [][last'.op \in {"step1", "step2", "step3", "step4", "step5"}
          => /\ pin_cache' # pin_cache
                   => /\ last'.op = "step5"
                      /\ helper'[last'.ctx].pin_state_shouldbe
                            \in {"save_temporary", "save_persistent"}
             /\ \A r \in ResumeIds : securebox'[r].permanent = 0]_vars

C21_Witness ==
    /\ last.op \in {"step1", "step2", "step3", "step4"}
    /\ last.exc = "none"
    /\ helper[last.ctx].resume_id # 0
    /\ securebox[helper[last.ctx].resume_id].transient = helper[last.ctx].pin
    /\ helper[last.ctx].pin \in Pins
    /\ pin_cache[helper[last.ctx].user_login_pk] = NoPin

\* The errors of the bank, which say nothing about the PIN policy.
BankErrors == {"FinTSError", "FinTSClientPINError"}

\* The PINs cached for a login, in either tier.
CachedPins(box) == {box.transient, box.permanent} \ {0}

\* C22: a fresh PIN (not the sentinel) that is submitted is the effective PIN, whatever
\* the storage preference: the handlers open the dialog with it, and after
\* load_from_form the helper's pin is the submitted one and it is kept where the
\* preference says.
C22_FreshPinIsEffective ==
    [][cleaned_data'.pin \in Pins
          => /\ (last'.op \in {"step1", "refresh", "legacy"} /\ last'.exc \notin BankErrors)
                   => (last'.exc = "none" /\ last'.pin = cleaned_data'.pin)
             /\ (last.op = "load_from_form" /\ last.exc = "none" /\ last'.op = "pin")
                   => (last'.exc = "none" /\ last'.pin = cleaned_data'.pin)
             /\ (last'.op = "load_from_form" /\ last'.exc = "none")
                   => LET h == helper'[last'.ctx] IN
                      /\ cleaned_data'.store_pin = "save_temporary"
                            => pin_cache'[h.user_login_pk].transient = cleaned_data'.pin
                      /\ cleaned_data'.store_pin = "save_persistent"
                            => pin_cache'[h.user_login_pk].permanent = cleaned_data'.pin
                      /\ cleaned_data'.store_pin = "dontsave"
                            => h.pin = cleaned_data'.pin]_vars

\* C23: when the sentinel is submitted the effective PIN is one that is cached for the
\* login, and with none cached the request fails with NoCachedCredentialError: no
\* dialog is opened with the sentinel, or with no PIN.
C23_SentinelMeansCachedPin ==
    [][(/\ cleaned_data'.pin = PIN_CACHED_SENTINEL
        /\ \/ last'.op \in {"step1", "refresh"}
           \/ last.op = "load_from_form" /\ last.exc = "none" /\ last'.op = "pin")
          => LET cached == CachedPins(pin_cache[helper'[last'.ctx].user_login_pk]) IN
             IF cached = {} THEN last'.exc = "NoCachedCredentialError"
             ELSE last'.exc \notin BankErrors
                     => (last'.exc = "none" /\ last'.pin \in cached)]_vars

\* C24: the sentinel is never kept as a PIN: neither under a login's cache label nor
\* under a resume label does a tier of the securebox hold it.
C24_SentinelNeverStored ==
    /\ \A l \in Logins : PIN_CACHED_SENTINEL \notin CachedPins(pin_cache[l])
    /\ \A r \in ResumeIds : PIN_CACHED_SENTINEL \notin CachedPins(securebox[r])

\* The bank refused the PIN of the client of the last request.
PinRefused ==
    /\ last.k \in EnrolClientIds
    /\ \E i \in DOMAIN clients[last.k].ev : clients[last.k].ev[i] = "pin_error"

\* C25: when the bank has refused the PIN in a request, no PIN is cached for that login
\* in any tier once the request has ended.
C25_RefusedPinIsPurged ==
    (last.op \in {"step1", "refresh", "legacy"} /\ PinRefused)
       => CachedPins(pin_cache[clients[last.k].login]) = {}

\* C26: no handler of the enrolment and no refresh is left by an error of the bank
\* (authentication or protocol): such an error becomes a message on the form.
C26_BankErrorsBecomeFormErrors ==
    last.op \in Handlers => last.exc \notin {"FinTSError", "FinTSClientPINError"}

\* C27: a span that saves the data of a user login has read the data it overwrites: the
\* client whose data are written was constructed from the data that were there.
C27_NoLostUpdate ==
    [][\A l \in Logins :
          fints_client_data'[l] # fints_client_data[l]
             => clients'[fints_client_data'[l].of].snapOf = fints_client_data[l].of]_vars

\* C28: the live set belongs to one unit of work: a context's sets hold only clients that
\* context opened, and when a context enters its outermost with_fints scope its live set
\* is empty.
C28_LiveSetPerUnitOfWork ==
    [][\A c \in Ctx :
          /\ \A k \in open_clients'[c] \cup resumed_dialogs'[c] : clients'[k].ctx = c
          /\ (with_fints_active[c] = 0 /\ with_fints_active'[c] = 1)
                => (open_clients[c] = {} /\ resumed_dialogs[c] = {})]_vars

\* C29: the context built from a need-TAN response holds the text of the challenge and
\* at most one of the two optional parts, the flicker code and the image.
C29_AtMostOneOptionalPart ==
    tan_context # NoTanContext
       => /\ tan_context.challenge # 0
          /\ ~(tan_context.challenge_flicker # <<>> /\ tan_context.challenge_matrix_url # 0)

C31_StreamOfSwappedNibbles ==
    \A k \in DOMAIN flicker_calls :
       LET call == flicker_calls[k]
           n == Len(call.data)
       IN IF n % 2 = 0
          THEN /\ call.exc = "none"
               /\ Len(call.stream) = 6 + 2 * n
               /\ SubSeq(call.stream, 1, 6) = <<1, 0, 31, 30, 31, 30>>
               /\ \A i \in 0..(n - 1) :
                     LET d == call.data[(IF i % 2 = 0 THEN i + 1 ELSE i - 1) + 1] IN
                     /\ call.stream[6 + 2 * i + 1] = 2 * d + 1
                     /\ call.stream[6 + 2 * i + 2] = 2 * d
               /\ \A f \in DOMAIN call.stream : call.stream[f] \in 0..31
          ELSE call.exc # "none" /\ call.stream = <<>>

C31_Witness ==
    /\ flicker_calls # <<>>
    /\ Len(flicker_calls[1].data) = 2
    /\ flicker_calls[1].data[1] # flicker_calls[1].data[2]
    /\ flicker_calls[1].exc = "none"
    /\ flicker_calls[1].stream[7] = 2 * flicker_calls[1].data[2] + 1

\* The clients a context has released in a step: open before, not open after.
Released(c) == open_clients[c] \ open_clients'[c]

\* C32: a call that releases a client (close_client, pause_client, the cleanup at scope
\* exit) invokes exactly one exit for it, that of the resume scope if and only if the
\* client was registered by resume_client; and when the call has returned no client is
\* in resumed_dialogs that is not in open_clients.
C32_OneExitPerRelease ==
    [][\A c \in Ctx :
          (last'.ctx = c /\ last'.op \in {"close_client", "pause_client", "exit_scope"})
             => /\ \A k \in Released(c) :
                      /\ Exits(clients'[k]) = Exits(clients[k]) + 1
                      /\ Count(clients'[k].ev, "scope_exit") > Count(clients[k].ev, "scope_exit")
                            <=> Count(clients[k].ev, "resume_enter") > 0
                /\ last'.exc = "none" => resumed_dialogs'[c] \subseteq open_clients'[c]]_vars

\* C33: when a FinTSHelper resumes a paused dialog, the client snapshot handed to the
\* resume is the one returned by the pause that produced the continuation blob, whatever
\* was written to the login's fints_client_data in between.
C33_ResumeUsesSnapshotOfItsPause ==
    \A c \in Ctx :
       (/\ last.op = "helper_open" /\ last.ctx = c
        /\ helper[c].cls = "FinTSHelper"
        /\ last.k # 0
        /\ Resumed(last.k))
          => clients[last.k].snapOf = clients[last.k].blob

\* The fields of a wrapper that _get_data_for_session puts into the session.
SavedFields == {"pin_state", "dialog_data", "tan_request_serialized", "tan_mechanism",
                "tan_medium", "tan_mechanisms", "tan_media", "pin_state_shouldbe",
                "user_login_pk", "client_data", "information"}

\* A step of the enrolment has returned after its save_in_session.
StepSaved(c) ==
    /\ last.op \in {"step1", "step2", "step3", "step4"} /\ last.ctx = c /\ last.exc = "none"
    /\ helper[c].cls = "FinTSWrapperAddProcess"
    /\ session[helper[c].resume_id].cls # "none"

OpenAndPaused(h) == h.client # 0 /\ h.dialog_data # 0

C36_StepsOnlyAdvance ==
    [][\A c \in Ctx : \A n \in 1..4 :
          (StepSaved(c)' /\ last'.op = <<"step1", "step2", "step3", "step4">>[n])
             => /\ route.step = n
                /\ route'.step \in (n + 1)..5
                /\ route'.resume_id = helper'[c].resume_id]_vars

C36_Witness ==
    \E c \in Ctx : StepSaved(c) /\ last.op = "step2" /\ route.step = 3

\* The helper of context c has just called open_client and the client's __enter__ raised.
OpenFailedInEnter(c) ==
    /\ last'.op = "helper_open" /\ last'.ctx = c /\ last'.exc = "FinTSError"
    /\ helper[c].client = 0 /\ helper[c].dialog_data = 0
    /\ nextClient' = nextClient + 1

\* C37: when the client's __enter__ raises inside open_client, the client is not added
\* to open_clients and the helper's client stays unset: nothing is registered for the
\* failed client, and the close() that follows changes nothing.
C37_FailedOpenRegistersNothing ==
    [][\A c \in Ctx :
          OpenFailedInEnter(c)
             => /\ nextClient \notin open_clients'[c] \cup resumed_dialogs'[c]
                /\ open_clients' = open_clients
                /\ clients'[nextClient].st = "new"
                /\ helper'[c].client = 0
                /\ \A f \in {"none", "deconstruct", "exit"} :
                      HelperClose(World, c, f)' = World']_vars

C37_Witness ==
    \E c \in Ctx :
       /\ last.op = "helper_open" /\ last.ctx = c /\ last.exc = "FinTSError"
       /\ helper[c].cls # "none" /\ helper[c].client = 0 /\ helper[c].dialog_data = 0
       /\ nextClient > 1
       /\ clients[nextClient - 1].st = "new"
       /\ clients[nextClient - 1].ctx = c
       /\ open_clients[c] = {}

\* C38: restore_from_session accepts a session entry only when the class that restores
\* is the one that saved it: on an entry of the other workflow it raises AssertionError
\* and the view gets no helper, so nothing of that entry is loaded.
C38_RestoreOnlyOwnClass ==
    \A c \in Ctx :
       /\ (last.op = "restore_from_session" /\ last.ctx = c)
             => IF last.exc = "none"
                THEN /\ helper[c].cls \in HelperClasses
                     /\ session[helper[c].resume_id].cls = helper[c].cls
                ELSE last.exc = "AssertionError" /\ helper[c] = NoHelper
       /\ \A cls \in HelperClasses, r \in ResumeIds :
             session[r].cls # "none"
                => LET w == HelperRestoreFromSession(World, c, cls, r) IN
                   IF session[r].cls = cls
                   THEN w.exc = "none" /\ w.h[c].cls = cls /\ w.h[c].resume_id = r
                   ELSE w.exc = "AssertionError" /\ w.h[c] = NoHelper

C38_Witness ==
    \E c \in Ctx, r \in ResumeIds :
       /\ last.op = "restore_from_session" /\ last.ctx = c /\ last.exc = "AssertionError"
       /\ session[r].cls \in HelperClasses
       /\ session[r].dialog_data # 0
       /\ helper[c] = NoHelper

\* The form the last request built was for user login pk.
FormBuiltFor(pk) ==
    \/ last.op = "get_form" /\ helper[last.ctx].user_login_pk = pk
    \/ last.op = "client_get_form" /\ last.k = pk

C40_ScopeDepthBalanced ==
    /\ [](\A c \in Ctx : with_fints_active[c] \in 0..MaxDepth)
    /\ [][\A c \in Ctx :
             with_fints_active'[c] =
                with_fints_active[c]
                   + (IF last'.ctx = c /\ last'.op = "enter_scope" THEN 1 ELSE 0)
                   - (IF last'.ctx = c /\ last'.op = "exit_scope" THEN 1 ELSE 0)]_vars

C40_Witness ==
    \E c \in Ctx :
       /\ last.op = "exit_scope" /\ last.ctx = c /\ last.exc # "none"
       /\ with_fints_active[c] = 0
       /\ open_clients[c] # {}

====
